---------------------------- MODULE Spec2Model ----------------------------
(***************************************************************************)
(* A cluster of browser clients of the falling-block game sharing one      *)
(* real-time store.  The module models the synchronization layer           *)
(* (NetworkManager), the per-frame driver (GameManager.update) and the     *)
(* falling piece (Shape).                                                  *)
(*                                                                         *)
(* Conventions.                                                            *)
(*  - Lengths are in HALF cells: a source coordinate v is held as 2*v, so  *)
(*    the block offsets -0.5, 0.5, 1.5, 2.5 are -1, 1, 3, 5 and the spawn  *)
(*    height 15 is 30.  Times are in milliseconds.                         *)
(*  - The store applies a write atomically and sends the new value of the   *)
(*    written path to every subscribed client.  A client handles the       *)
(*    values sent to it on a path in order, each some time after it was    *)
(*    sent and within the clock step in which it was sent.  Up to          *)
(*    MaxPending values of a path wait at a client; a further one          *)
(*    replaces the newest waiting.                                         *)
(*  - A field written as null is read back as nullAs: as Null, the value    *)
(*    the source compares against, by a store that keeps the field, or as  *)
(*    Undef by a store that drops it.  Which store the cluster runs on is  *)
(*    fixed when the pages load.  A map (store path or local Map) is a     *)
(*    function whose DOMAIN is the set of keys present.                    *)
(*  - The page of every client is loaded at time 0, so the frame clock     *)
(*    (requestAnimationFrame) and Date.now() agree; a Date.now() stamp of  *)
(*    0 is a time long before.                                             *)
(***************************************************************************)
EXTENDS Integers, Sequences, FiniteSets, TLC

VARIABLES
  now,            \* Date.now(), ms
  dbPlayers,      \* store: players/{id}
  dbShapes,       \* store: shapes/{id}
  dbGame,         \* store: gameState
  nextId,         \* next fresh piece id (Math.random() ids, never reused)
  joined,         \* clients whose initialize() has completed
  players,        \* per client: NetworkManager.players, keys in Map order
  shapes,         \* per client: NetworkManager.shapes
  gameState,      \* per client: NetworkManager.gameState
  pend,           \* per client and path: the snapshots sent and not yet handled
  thenQ,          \* per client: sentinel writes whose .then() has not run yet,
                  \* each with the game state under which it was issued
  lastShapeUpdate,\* per client: NetworkManager.lastShapeUpdate
  gmLastSpawn,    \* per client: GameManager.lastSpawnTime
  nullAs,         \* store: what a field written as null is read back as
  spawnLog,       \* history: every created piece record: which piece, by
                  \* whom, how, under which game state, after a sentinel write
  sentinels,      \* history: the clients that have written the sentinel
  simLocks,       \* history: <<client, piece>> of every lock made by the
                  \* client's own simulation (Shape.update)
  dups,           \* history, per client: the pairs of pieces its cache has held
                  \* active and unlocked at the same time
  inputs,         \* number of rotate and shift inputs the players have made
  calls,          \* throttle harness: the calls of updateShapeState made
  net,            \* the peer layer: the data connections between the clients,
                  \* each client's connections Map, its pending reconnect
                  \* timers and listing reads, and what it owes (history)
  cast,           \* one client's connections Map and what a broadcast did
  disp,           \* one client at dispose(): what it holds and what it did
  bul,            \* one client's bullets cache, the remote player it shows
                  \* and the peer messages it has handled (history)
  lab,            \* one piece advanced frame by frame, and its history
  boot,           \* per client: how its initialize() went: the store request
                  \* that was rejected, the paths subscribed, whether it returned
  snapP,          \* reconciliation harness: a players snapshot
  snapS,          \* reconciliation harness: a shapes snapshot
  idem            \* reconciliation harness: what each application did

vars == <<now, dbPlayers, dbShapes, dbGame, nextId, joined, players, shapes,
          gameState, pend, thenQ, lastShapeUpdate, gmLastSpawn, nullAs,
          spawnLog, sentinels, simLocks, dups, inputs, calls, net, cast, disp, boot, bul, lab, snapP, snapS, idem>>

-----------------------------------------------------------------------------
(* Bounds of the model *)

MaxTicks == 4
MaxShapes == 3
MaxThen == 2
MaxPending == 2
MaxInputs == 1
MaxCalls == 3
MaxDrops == 2
MaxTimers == 2
MaxBullets == 2

MaxTime == MaxTicks * 1000

Clients == {"c1", "c2"}
\* the piece ids, in store key order; addShape draws them in this order
IdOrder == <<"s1", "s2", "s3", "s4", "s5", "s6">>
ShapeIds == {IdOrder[i] : i \in 1..MaxShapes}
\* the amounts by which the clock advances between two handlers
ClockSteps == {1000}
\* inputs of spawnNewShape drawn by Math.random(): piece types and columns
SpawnTypes == {"I"}
SpawnXs == {0}

-----------------------------------------------------------------------------
(* Program constants *)

shapeUpdateInterval == 200
spawnInterval == 3000
SpawnCooldown == 1000
FallInterval == 1000
StaleAfter == 5000
SpawnY == 30
MaxY == 40
MinStoreY == -2
groundLevel == 0
fallSpeed == 2
gridHalf == 10
RotationSteps == 20
collisionThreshold == 2
BulletMaxLifetime == 8000

Undef == "undefined"
Null == "null"
Spawning == "spawning"
Paths == {"players", "shapes", "gameState"}

Abs(n) == IF n < 0 THEN 0 - n ELSE n

Min(S) == CHOOSE m \in S : \A n \in S : m <= n

\* the keys S in key order (Object.entries / Map iteration)
RECURSIVE InOrder(_, _)
InOrder(S, order) ==
  IF order = <<>> THEN <<>>
  ELSE IF Head(order) \in S THEN <<Head(order)>> \o InOrder(S, Tail(order))
       ELSE InOrder(S, Tail(order))

EmptyMap == [k \in {} |-> TRUE]

\* a map without key k, and with key k bound to v
Without(f, k) == [j \in DOMAIN f \ {k} |-> f[j]]
With(f, k, v) == [j \in DOMAIN f \cup {k} |-> IF j = k THEN v ELSE f[j]]

\* key order of the player ids in a store listing
PlayerKeyOrder == <<"c1", "c2", "p3">>

SeqToSet(s) == {s[i] : i \in 1..Len(s)}

SeqRemove(s, x) == SelectSeq(s, LAMBDA e : e # x)


-----------------------------------------------------------------------------
(* Shape.js: the falling piece.  Angles are in steps of pi/40, the amount    *)
(* a started rotation advances per frame: a quarter turn is RotationSteps   *)
(* steps.  The block offsets of a piece are those of getShapeDefinition()   *)
(* turned by rot quarter turns; the block meshes of a piece in mid-turn are *)
(* taken at the offsets of the last whole quarter turn.                     *)

\* getShapeDefinition(): the block offsets of a type, in half cells
getShapeDefinition(type) ==
  CASE type = "I" -> << <<-1, -1>>, <<-1, 1>>, <<-1, 3>>, <<-1, 5>> >>
    [] type = "O" -> << <<-1, -1>>, <<1, -1>>, <<-1, 1>>, <<1, 1>> >>
    [] type = "T" -> << <<-1, -1>>, <<-3, 1>>, <<-1, 1>>, <<1, 1>> >>
    [] type = "L" -> << <<-1, -1>>, <<1, -1>>, <<-1, 1>>, <<-1, 3>> >>
    [] type = "S" -> << <<-1, -1>>, <<1, -1>>, <<1, 1>>, <<3, 1>> >>
    [] OTHER -> << <<0, 0>> >>

\* a quarter turn that is a sixth of a turn on the lattice instead
RECURSIVE TurnedSixth(_, _)
TurnedSixth(off, n) ==
  IF n = 0 THEN off ELSE TurnedSixth(<<off[1] - off[2], off[1]>>, n - 1)

\* an offset turned counterclockwise by n quarter turns (applyAxisAngle about z)
RECURSIVE Turned(_, _)
Turned(off, n) == IF n = 0 THEN off ELSE Turned(<<0 - off[2], off[1]>>, n - 1)

\* block.userData.initialOffset of every block after rot quarter turns
Offsets(type, rot) ==
  LET d == getShapeDefinition(type) IN [i \in 1..Len(d) |-> Turned(d[i], rot)]

\* 10000 * sin(k * pi / 40) and 10000 * cos(k * pi / 40) for k = 0 .. 20, at
\* index k + 1
Sin10000 ==
  <<0, 785, 1564, 2334, 3090, 3827, 4540, 5225, 5878, 6494, 7071, 7604, 8090,
    8526, 8910, 9239, 9511, 9724, 9877, 9969, 10000>>

Cos10000 ==
  <<10000, 9969, 9877, 9724, 9511, 9239, 8910, 8526, 8090, 7604, 7071, 6494,
    5878, 5225, 4540, 3827, 3090, 2334, 1564, 785, 0>>

\* 10000 times the y component of an offset turned by the angle k
TurnedY10000(off, k) == off[1] * Sin10000[k + 1] + off[2] * Cos10000[k + 1]

\* rotationSpeed, in ten-thousandths of a radian per frame: 0.1 of the
\* constructor, and Math.PI / 40, one step, of startRotation(true)
HitRotationSpeed == 1000
TurnRotationSpeed == 785

\* new Shape(type, color, false) placed at (x, y) with its blocks laid out
\* there.  (bx, by) is the base position the block meshes were last laid out
\* at by updateBlockPositions(); block i is at (bx, by) + offset i.
NewShape(type, x, y) ==
  [type |-> type, x |-> x, y |-> y, bx |-> x, by |-> y,
   isLocked |-> FALSE, isActive |-> TRUE, lastFallTime |-> 0,
   rot |-> 0, isRotating |-> FALSE, currentRotation |-> 0, targetRotation |-> 0,
   rotationSpeed |-> HitRotationSpeed]

\* the positions of the block meshes of a local piece
BlockPositions(sh) ==
  LET d == Offsets(sh.type, sh.rot)
  IN  {<<sh.bx + d[i][1], sh.by + d[i][2]>> : i \in 1..Len(d)}

updateBlockPositions(sh) == [sh EXCEPT !.bx = sh.x, !.by = sh.y]

\* moveSideways(direction): the base column moves when it stays in the grid
moveSideways(sh, direction) ==
  IF Abs(sh.x + direction) <= gridHalf
  THEN updateBlockPositions([sh EXCEPT !.x = sh.x + direction])
  ELSE sh

\* snapToGrid(): x is already a whole cell; lift the piece when its lowest
\* block mesh is at or below the ground
snapToGrid(sh) ==
  LET lowestY == Min({p[2] : p \in BlockPositions(sh)})
      lifted == IF lowestY <= groundLevel
                THEN [sh EXCEPT !.y = sh.y + (groundLevel - lowestY)]
                ELSE sh
  IN  updateBlockPositions(lifted)

\* the piece would cross the ground on its next gravity step; the offsets
\* of a piece in mid-turn are taken at the angle it has reached
wouldCollide(sh) ==
  LET d == Offsets(sh.type, sh.rot)
      k == IF sh.isRotating THEN sh.currentRotation ELSE 0
  IN  \E i \in 1..Len(d) :
         (sh.y - fallSpeed) * 10000 + TurnedY10000(d[i], k) <= groundLevel * 10000

\* startRotation(true): a turn already under way is kept; a turn that would
\* put a block outside the grid is called off, after the target was set
startRotation(sh) ==
  IF sh.isRotating THEN sh
  ELSE LET d == Offsets(sh.type, (sh.rot + 1) % 4)
           wouldBeValid == \A i \in 1..Len(d) : Abs(sh.x + d[i][1]) <= gridHalf
           started == [sh EXCEPT !.isRotating = TRUE, !.currentRotation = 0,
                                 !.rotationSpeed = TurnRotationSpeed,
                                 !.targetRotation = RotationSteps]
       IN  IF wouldBeValid THEN updateBlockPositions(started)
           ELSE [started EXCEPT !.isRotating = FALSE]

\* the rotation part of Shape.update: one step further; at the target the
\* offsets take the quarter turn (none when no turn was started here: the
\* target is 0 and Math.sign(0) is 0).  The speed is one step whenever the
\* target is a quarter turn, for startRotation sets both; with the target 0
\* the first advance, of any speed, reaches it.
ShapeRotate(sh) ==
  IF ~sh.isRotating THEN sh
  ELSE IF sh.currentRotation + 1 >= sh.targetRotation
       THEN updateBlockPositions(
              snapToGrid([sh EXCEPT !.rot = IF sh.targetRotation = 0 THEN @
                                             ELSE (@ + 1) % 4,
                                    !.isRotating = FALSE, !.currentRotation = 0]))
       ELSE updateBlockPositions([sh EXCEPT !.currentRotation = @ + 1])

\* the gravity part of Shape.update
ShapeFall(sh, currentTime) ==
  IF currentTime - sh.lastFallTime >= FallInterval
  THEN IF wouldCollide(sh)
       THEN updateBlockPositions(
              [snapToGrid(sh) EXCEPT !.isLocked = TRUE, !.isActive = FALSE])
       ELSE updateBlockPositions(
              [sh EXCEPT !.y = sh.y - fallSpeed, !.lastFallTime = currentTime])
  ELSE sh

\* Shape.update(currentTime)
ShapeUpdate(sh, currentTime) ==
  IF sh.isLocked THEN sh ELSE ShapeFall(ShapeRotate(sh), currentTime)

\* GameManager.checkShapeCollision: two block meshes closer than 0.9 cell on
\* both axes (z is 0 for every piece)
checkShapeCollision(s1, s2) ==
  \E p \in BlockPositions(s1), q \in BlockPositions(s2) :
     /\ 10 * Abs(p[1] - q[1]) < 18
     /\ 10 * Abs(p[2] - q[2]) < 18

-----------------------------------------------------------------------------
(* The store.  A handler works on a "world" w: the acting client's cache    *)
(* and throttle stamp, the store, and what the handler has done so far.     *)
(*   sh   the client's shapes cache      lsu  its lastShapeUpdate           *)
(*   dbS  shapes/{id}                    dbG  gameState                     *)
(*   nid  index of the next fresh id     dirty  paths written               *)
(*   log  the spawn history              thn  its pending sentinel .then()s *)
(*   sent whether it has written the sentinel                               *)

World(c) ==
  [sh |-> shapes[c], lsu |-> lastShapeUpdate[c], dbS |-> dbShapes,
   dbG |-> dbGame, nid |-> nextId, dirty |-> {}, log |-> spawnLog,
   thn |-> thenQ[c], sent |-> c \in sentinels]

\* lastShapeUpdate = 0 of the constructor: a Date.now() stamp of long before
\* the pages load
NeverUpdated == 0 - 1000000

\* the gameState record that does not exist: snapshot.val() || {} reads it as {}
NoGame ==
  [has |-> FALSE, isActive |-> FALSE, currentShapeId |-> Undef, lastSpawnTime |-> 0,
   createdBy |-> Undef]

\* update(ref(database, "gameState"), {currentShapeId, lastSpawnTime[, isActive]}).
\* The rules validate gameState with hasChildren(['isActive','lastSpawnTime']):
\* a patch without isActive is refused while the record does not exist.
StoreUpdateGame(w, csid, t, withIsActive) ==
  IF ~w.dbG.has /\ ~withIsActive THEN w
  ELSE [w EXCEPT !.dbG = [has |-> TRUE, isActive |-> TRUE,
                          currentShapeId |-> IF csid = Null THEN nullAs ELSE csid,
                          lastSpawnTime |-> t, createdBy |-> w.dbG.createdBy],
                 !.dirty = @ \cup {"gameState"}]

\* A piece record holds currentRotation when hasRotation is true (typeof
\* data.currentRotation === "number"); isRotating false stands for absent too.
\* update(shapeRef, {position[, isLocked: true, isActive: false],
\* currentRotation: null, lastUpdate}): validateNumber(undefined) is null, so
\* a patch without a rotation removes currentRotation from the record.
\* The rules validate shapes/{id} with hasChildren([type, ...]) and
\* -1 <= position.y <= 20: a patch of a record that does not exist, or with y
\* out of range, is refused.
StoreUpdateShape(w, id, x, y, lock) ==
  IF id \notin DOMAIN w.dbS \/ y < MinStoreY \/ y > MaxY THEN w
  ELSE [w EXCEPT !.dbS[id] =
                    IF lock
                    THEN [@ EXCEPT !.x = x, !.y = y, !.isLocked = TRUE, !.isActive = FALSE,
                                   !.hasRotation = FALSE, !.currentRotation = 0]
                    ELSE [@ EXCEPT !.x = x, !.y = y,
                                   !.hasRotation = FALSE, !.currentRotation = 0],
                 !.dirty = @ \cup {"shapes"}]

\* update(shapeRef, {isRotating: true, currentRotation, lastUpdate})
StoreUpdateRotation(w, id, rotation) ==
  IF id \notin DOMAIN w.dbS THEN w
  ELSE [w EXCEPT !.dbS[id] = [@ EXCEPT !.isRotating = TRUE, !.hasRotation = TRUE,
                                       !.currentRotation = rotation],
                 !.dirty = @ \cup {"shapes"}]

\* set(ref(database, `shapes/${id}`), null)
StoreDeleteShape(w, id) ==
  IF id \notin DOMAIN w.dbS THEN w
  ELSE [w EXCEPT !.dbS = Without(@, id), !.dirty = @ \cup {"shapes"}]

-----------------------------------------------------------------------------
(* NetworkManager *)

\* a patch routine that has no throttle
updateShapeStateUnthrottled(w, id, lock, t) ==
  IF id \notin DOMAIN w.sh THEN w
  ELSE IF ~w.sh[id].isActive /\ ~lock THEN w
  ELSE StoreUpdateShape([w EXCEPT !.lsu = t], id, w.sh[id].x, w.sh[id].y, lock)

\* updateShapeState(shapeId, state): state is {position} (lock = FALSE) or
\* {position, isLocked: true, isActive: false} (lock = TRUE)
updateShapeState(w, id, lock, t) ==
  IF id \notin DOMAIN w.sh THEN w
  ELSE IF ~w.sh[id].isActive /\ ~lock THEN w
  ELSE IF t - w.lsu < shapeUpdateInterval THEN w
  ELSE StoreUpdateShape([w EXCEPT !.lsu = t], id, w.sh[id].x, w.sh[id].y, lock)

\* updateShapeState(shapeId, {isRotating: true, currentRotation})
updateShapeStateRotating(w, id, t) ==
  IF id \notin DOMAIN w.sh THEN w
  ELSE IF ~w.sh[id].isActive THEN w
  ELSE IF t - w.lsu < shapeUpdateInterval THEN w
  ELSE StoreUpdateRotation([w EXCEPT !.lsu = t], id, w.sh[id].currentRotation)

\* addShape(type, color, position): the piece record, then the game state.
\* how and seen go to the history only: the path that spawns ("arbitration",
\* "frame") and the game state under which the arbitration passed.
addShape(w, c, type, x, t, how, seen) ==
  LET id == IdOrder[w.nid]
      w1 == [w EXCEPT !.dbS = With(@, id, [type |-> type, x |-> x, y |-> SpawnY,
                                           isLocked |-> FALSE, isActive |-> TRUE,
                                           isRotating |-> FALSE,
                                           hasRotation |-> FALSE,
                                           currentRotation |-> 0,
                                           createdBy |-> c]),
                      !.dirty = @ \cup {"shapes"},
                      !.nid = @ + 1,
                      !.log = @ \cup {[id |-> id, by |-> c, how |-> how, seen |-> seen,
                                       afterSentinel |-> w.sent]}]
  IN  StoreUpdateGame(w1, id, t, TRUE)

\* the part of updateShapes(shapes) run for one entry of the snapshot
ReconcileShape(w, id, data, t) ==
  LET isNew == id \notin DOMAIN w.sh
      made == [NewShape(data.type, data.x, data.y)
                 EXCEPT !.isLocked = data.isLocked, !.isActive = data.isActive]
  IN  IF isNew /\ data.y > MaxY THEN w
      ELSE
        LET s1 == IF isNew THEN made ELSE w.sh[id]
            s2 == IF ~s1.isLocked /\ data.y <= s1.y
                  THEN [s1 EXCEPT !.x = IF data.x # 0 THEN data.x ELSE s1.x,
                                  !.y = data.y]
                  ELSE s1
            wasActive == s2.isActive
            s3 == [s2 EXCEPT !.isLocked = data.isLocked, !.isActive = data.isActive,
                             !.isRotating = data.isRotating,
                             !.currentRotation = IF data.hasRotation
                                                 THEN data.currentRotation ELSE @]
            w1 == IF wasActive /\ s3.isLocked
                  THEN StoreUpdateGame(w, Null, t, FALSE)
                  ELSE w
            s4 == IF s3.isActive THEN updateBlockPositions(s3) ELSE s3
        IN  [w1 EXCEPT !.sh = With(@, id, s4)]

RECURSIVE ReconcileShapes(_, _, _, _)
ReconcileShapes(w, ids, snapshot, t) ==
  IF ids = <<>> THEN w
  ELSE ReconcileShapes(ReconcileShape(w, Head(ids), snapshot[Head(ids)], t),
                       Tail(ids), snapshot, t)

\* a reconciliation that keeps the local pieces the snapshot lacks
updateShapesKeeping(w, snapshot, t) ==
  ReconcileShapes(w, InOrder(DOMAIN snapshot, IdOrder), snapshot, t)

\* updateShapes(shapes): drop the local pieces the snapshot lacks, then create
\* or update one local piece per entry
updateShapes(w, snapshot, t) ==
  LET kept == [w EXCEPT !.sh = [id \in DOMAIN w.sh \cap DOMAIN snapshot |-> w.sh[id]]]
  IN  ReconcileShapes(kept, InOrder(DOMAIN snapshot, IdOrder), snapshot, t)

RECURSIVE RemoveShapes(_, _)
RemoveShapes(w, ids) ==
  IF ids = <<>> THEN w
  ELSE RemoveShapes(StoreDeleteShape([w EXCEPT !.sh = Without(@, Head(ids))], Head(ids)),
                    Tail(ids))

\* the ids cleanupFloatingShapes() removes
shapesToRemove(sh) ==
  {id \in DOMAIN sh : \/ (~sh[id].isActive /\ sh[id].y > 0)
                      \/ sh[id].y > MaxY}

\* cleanupFloatingShapes()
cleanupFloatingShapes(w) == RemoveShapes(w, InOrder(shapesToRemove(w.sh), IdOrder))

\* a test with the lock flag taken the wrong way round
hasActiveLockedShape(sh) ==
  \E id \in DOMAIN sh : sh[id].isActive /\ sh[id].isLocked

\* Array.from(this.shapes.values()).some((shape) => shape.isActive && !shape.isLocked)
hasActiveFallingShape(sh) ==
  \E id \in DOMAIN sh : sh[id].isActive /\ ~sh[id].isLocked

\* const isFirstPlayer = players.length === 0 || players[0] === this.playerId
isFirstPlayer(c, cache) == Len(cache) = 0 \/ cache[1] = c

\* const hasCurrentShape = this.gameState.currentShapeId !== null
hasCurrentShape(gs) == gs.currentShapeId # Null

\* currentTime - this.gameState.lastSpawnTime > 1000 (false for a missing stamp)
cooldownElapsed(gs, t) == gs.has /\ t - gs.lastSpawnTime > SpawnCooldown

\* the condition under which handleGameStateUpdate() starts a spawn
shouldSpawn(c, sh, gs, cache, t) ==
  /\ ~hasActiveFallingShape(sh)
  /\ ~hasCurrentShape(gs)
  /\ cooldownElapsed(gs, t)
  /\ isFirstPlayer(c, cache)

\* handleGameStateUpdate() after this.gameState = gs; the .then() of the
\* sentinel write is queued when the store has taken the write
handleGameStateUpdate(w, c, gs, cache, t) ==
  LET w1 == cleanupFloatingShapes(w)
  IN  IF shouldSpawn(c, w1.sh, gs, cache, t) /\ w1.dbG.has
      THEN [StoreUpdateGame(w1, Spawning, t, FALSE) EXCEPT
              !.thn = Append(@, gs), !.sent = TRUE]
      ELSE w1

\* updatePlayers(players): cache is the Map's key sequence.  The result has
\* the new cache, the objects created and disposed, and the store deletes
\* issued (players/{id} and scores/{id} set to null).
\* a sweep that deletes the record of every offline player, stale or not
RECURSIVE DropPlayersOffline(_, _, _, _)
DropPlayersOffline(r, todo, snapshot, t) ==
  IF todo = <<>> THEN r
  ELSE LET id == Head(todo)
           r1 == IF id \notin DOMAIN snapshot
                 THEN [r EXCEPT !.cache = SeqRemove(@, id), !.disposed = Append(@, id)]
                 ELSE IF ~snapshot[id].online
                 THEN [r EXCEPT !.cache = SeqRemove(@, id), !.disposed = Append(@, id),
                                !.deletes = Append(@, id)]
                 ELSE r
       IN  DropPlayersOffline(r1, Tail(todo), snapshot, t)

RECURSIVE DropPlayers(_, _, _, _)
DropPlayers(r, todo, snapshot, t) ==
  IF todo = <<>> THEN r
  ELSE LET id == Head(todo)
           r1 == IF id \notin DOMAIN snapshot
                 THEN [r EXCEPT !.cache = SeqRemove(@, id), !.disposed = Append(@, id)]
                 ELSE IF ~snapshot[id].online
                 THEN [r EXCEPT !.cache = SeqRemove(@, id), !.disposed = Append(@, id),
                                !.deletes = IF t - snapshot[id].lastSeen > StaleAfter
                                            THEN Append(@, id) ELSE @]
                 ELSE r
       IN  DropPlayers(r1, Tail(todo), snapshot, t)

RECURSIVE AddPlayers(_, _, _)
AddPlayers(r, todo, self) ==
  IF todo = <<>> THEN r
  ELSE LET id == Head(todo)
           r1 == IF id = self \/ id \in SeqToSet(r.cache) THEN r
                 ELSE [r EXCEPT !.cache = Append(@, id), !.created = Append(@, id)]
       IN  AddPlayers(r1, Tail(todo), self)

updatePlayers(cache, snapshot, self, t) ==
  LET r0 == [cache |-> cache, created |-> <<>>, disposed |-> <<>>, deletes |-> <<>>]
      r1 == DropPlayers(r0, cache, snapshot, t)
  IN  AddPlayers(r1, InOrder(DOMAIN snapshot, PlayerKeyOrder), self)

-----------------------------------------------------------------------------
(* GameManager *)

\* the body of the loop of GameManager.updateShapes(currentTime) for one piece
RECURSIVE gmUpdateShapes(_, _, _)
gmUpdateShapes(w, ids, t) ==
  IF ids = <<>> THEN w
  ELSE
    LET id == Head(ids)
    IN  IF id \notin DOMAIN w.sh \/ w.sh[id].isLocked \/ ~w.sh[id].isActive
        THEN gmUpdateShapes(w, Tail(ids), t)
        ELSE
          LET s1 == ShapeUpdate(w.sh[id], t)
              hit == \E o \in DOMAIN w.sh \ {id} :
                        w.sh[o].isLocked /\ checkShapeCollision(s1, w.sh[o])
              s2 == IF hit THEN snapToGrid(s1) ELSE s1
              w1 == [w EXCEPT !.sh[id] = s2]
              w2 == IF hit THEN updateShapeState(w1, id, TRUE, t) ELSE w1
              w3 == updateShapeState(w2, id, FALSE, t)
          IN  gmUpdateShapes(w3, Tail(ids), t)

\* the spawn check of GameManager.update(currentTime)
gmShouldSpawn(sh, lastSpawnTime, t) ==
  /\ ~hasActiveFallingShape(sh)
  /\ t - lastSpawnTime > spawnInterval

-----------------------------------------------------------------------------
(* The cluster: state after the pages have loaded, and one action per       *)
(* handler.                                                                 *)

\* what the handlers of the cluster leave alone
harness == <<inputs, calls, net, cast, disp, boot, bul, lab, snapP, snapS, idem>>

\* The peer layer of a cluster.
\*   link[<<c, p>>]   the data connection c dialed to p: "none", "dialing", "open"
\*   entry[c][p]      what c's connections Map holds for p: "none", the
\*                    connection c dialed ("out") or the one p dialed ("in")
\*   timers[c]        setTimeout(() => this.reconnectToPeers(), 5000) pending
\*   reads[c]         get(playersRef) of reconnectToPeers() in flight
\*   owed[c][p]       history: a connection of c to p closed or failed and c
\*                    has not dialed p since
\*   drops            history: number of connections closed or failed
NoNet ==
  [link |-> [e \in Clients \X Clients |-> "none"],
   entry |-> [c \in Clients |-> [p \in Clients |-> "none"]],
   timers |-> [c \in Clients |-> 0],
   reads |-> [c \in Clients |-> 0],
   owed |-> [c \in Clients |-> [p \in Clients |-> FALSE]],
   drops |-> 0]

\* No broadcast under way.
\*   conns       the connections Map in insertion order: the peer, whether
\*               conn.open, whether conn.send() throws
\*   data        whether updatePlayerPosition() was given a position
\*   tried       the peers on whose connection send() was called
\*   delivered   those on which it did not throw
\*   outcome     "idle", then "returned" or "raised"
NoCast ==
  [conns |-> <<>>, data |-> FALSE, tried |-> <<>>, delivered |-> <<>>,
   outcome |-> "idle"]

\* A client that holds nothing and has not disposed.
\*   playerRef   whether this.playerRef is set (the own record was written)
\*   peer        whether this.peer is set
\*   conns       the connections Map in insertion order: the peer and the
\*               connection's state, "connecting" (not open yet), "open" or
\*               "closed"
\*   held        history: the Map as dispose() found it
\*   atDestroy   history: the state of the held connections when
\*               this.peer.destroy() was called
\*   log         history: what dispose() did, in order
NoDisp ==
  [playerRef |-> FALSE, peer |-> FALSE, conns |-> <<>>, held |-> <<>>,
   atDestroy |-> <<>>, log |-> <<>>, disposed |-> FALSE]

\* The remote player a client shows, before any position message.  Bullet
\* and player positions are in QUARTER cells (a source coordinate v is held
\* as 4*v), so that a bullet can be closer to a block than half a cell.
NewRemotePlayer ==
  [x |-> 0, y |-> 0, z |-> 0, velocity |-> 0, figX |-> 0, figY |-> 0, figZ |-> 0,
   isOnGround |-> TRUE]

\* No bullets.
\*   cache    NetworkManager.bullets: the bullet under each id
\*            <<playerId, timestamp>>, with the time it entered (history)
\*   remote   the Player object shown for the other client
\*   seen     history: the bullet messages handled so far
\*   last     history: the position message handled last, in a set
NoBul == [cache |-> EmptyMap, remote |-> NewRemotePlayer, seen |-> {}, last |-> {}]

\* No piece on the bench.
NoLab == [on |-> FALSE]

\* initialize() has not run
NotBooted == [fail |-> "none", subscribed |-> {}, returned |-> FALSE]

\* The store when the pages load: empty, or holding what an earlier session
\* left behind: a piece that fell to one cell above the ground, the game
\* state written by resetGameState(), or the sentinel of a spawner that left
\* before its piece was written.
LeftoverShapes ==
  [id \in {"s1"} |-> [type |-> "I", x |-> 0, y |-> 2, isLocked |-> FALSE,
                      isActive |-> TRUE, isRotating |-> FALSE,
                      hasRotation |-> FALSE, currentRotation |-> 0,
                      createdBy |-> "p0"]]

ResetGame ==
  [has |-> TRUE, isActive |-> TRUE, currentShapeId |-> nullAs,
   lastSpawnTime |-> 0 - 14000, createdBy |-> "p0"]

LeftoverGame == [ResetGame EXCEPT !.currentShapeId = "s1"]

StuckGame == [ResetGame EXCEPT !.currentShapeId = Spawning]

Init ==
  /\ now = 0
  /\ nullAs \in {Null, Undef}
  /\ dbPlayers = EmptyMap
  /\ \/ dbShapes = EmptyMap /\ dbGame = NoGame /\ nextId = 1
     \/ dbShapes = LeftoverShapes /\ dbGame = LeftoverGame /\ nextId = 2
     \/ dbShapes = EmptyMap /\ dbGame = ResetGame /\ nextId = 1
     \/ dbShapes = EmptyMap /\ dbGame = StuckGame /\ nextId = 1
  /\ joined = {}
  /\ players = [c \in Clients |-> <<>>]
  /\ shapes = [c \in Clients |-> EmptyMap]
  /\ gameState = [c \in Clients |-> NoGame]
  /\ pend = [c \in Clients |-> [path \in Paths |-> <<>>]]
  /\ thenQ = [c \in Clients |-> <<>>]
  /\ lastShapeUpdate = [c \in Clients |-> NeverUpdated]
  /\ gmLastSpawn = [c \in Clients |-> 0]
  /\ spawnLog = {}
  /\ sentinels = {}
  /\ simLocks = {}
  /\ dups = [c \in Clients |-> {}]
  /\ inputs = 0
  /\ calls = <<>>
  /\ boot = [c \in Clients |-> NotBooted]
  /\ net = NoNet
  /\ cast = NoCast
  /\ disp = NoDisp
  /\ snapP = EmptyMap
  /\ snapS = EmptyMap
  /\ bul = NoBul
  /\ lab = NoLab
  /\ idem = [players |-> <<>>, shapes |-> <<>>]

\* the pieces of a shapes map (store or cache) that are falling
ActiveUnlocked(m) == {id \in DOMAIN m : m[id].isActive /\ ~m[id].isLocked}

Pairs(S) == {{a, b} : a \in S, b \in S} \ {{a} : a \in S}

\* the value of a path that the store sends to its subscribers
Snapshot(path, P, S, G) ==
  CASE path = "players" -> P
    [] path = "shapes" -> S
    [] OTHER -> G

\* a snapshot joins those waiting at a client
Enqueue(q, v) ==
  IF Len(q) < MaxPending THEN Append(q, v) ELSE [q EXCEPT ![Len(q)] = v]

\* what a handler of client c leaves behind: its cache and stamp, the store,
\* and the new value of every path it wrote, sent to every subscribed client
Commit(c, w, consumed) ==
  /\ shapes' = [shapes EXCEPT ![c] = w.sh]
  /\ lastShapeUpdate' = [lastShapeUpdate EXCEPT ![c] = w.lsu]
  /\ dbShapes' = w.dbS
  /\ dbGame' = w.dbG
  /\ nextId' = w.nid
  /\ spawnLog' = w.log
  /\ thenQ' = [thenQ EXCEPT ![c] = w.thn]
  /\ sentinels' = IF w.sent THEN sentinels \cup {c} ELSE sentinels
  /\ dups' = [dups EXCEPT ![c] = @ \cup Pairs(ActiveUnlocked(w.sh))]
  /\ pend' = [d \in Clients |->
                IF d \in joined
                THEN [path \in Paths |->
                        LET q == IF d = c /\ path \in consumed
                                 THEN Tail(pend[d][path]) ELSE pend[d][path]
                        IN  IF path \in w.dirty
                            THEN Enqueue(q, Snapshot(path, dbPlayers, w.dbS, w.dbG))
                            ELSE q]
                ELSE pend[d]]

\* no snapshot is waiting at a client and no write awaits its acknowledgement
Quiet ==
  \A c \in Clients : thenQ[c] = <<>> /\ \A path \in Paths : pend[c][path] = <<>>

\* time passes; a message is in flight for less than a clock step
Tick ==
  /\ Quiet
  /\ \E d \in ClockSteps : now + d <= MaxTime /\ now' = now + d
  /\ UNCHANGED <<dbPlayers, dbShapes, dbGame, nextId, joined, players, shapes,
                 gameState, pend, thenQ, lastShapeUpdate, gmLastSpawn, nullAs,
                 spawnLog, sentinels, simLocks, dups,
                 harness>>

\* initialize(), run when the page loads: the player record, the
\* subscriptions, and the game state when the players listing read afterwards
\* is empty
Join(c) ==
  /\ now = 0
  /\ c \notin joined
  /\ joined' = joined \cup {c}
  /\ dbPlayers' = With(dbPlayers, c, [online |-> TRUE, lastSeen |-> now])
  /\ dbGame' = IF DOMAIN dbPlayers' = {}
               THEN [has |-> TRUE, isActive |-> TRUE, currentShapeId |-> nullAs,
                     lastSpawnTime |-> now, createdBy |-> c]
               ELSE dbGame
  /\ pend' = [d \in Clients |->
                IF d = c
                THEN [path \in Paths |-> <<Snapshot(path, dbPlayers', dbShapes, dbGame')>>]
                ELSE IF d \in joined
                THEN [pend[d] EXCEPT !["players"] = Enqueue(@, dbPlayers')]
                ELSE pend[d]]
  /\ UNCHANGED <<now, dbShapes, nextId, players, shapes, gameState, thenQ,
                 lastShapeUpdate, gmLastSpawn, nullAs, spawnLog, sentinels, simLocks, dups,
                 harness>>

\* onValue(playersRef): updatePlayers(players).  The deletes it issues for
\* stale offline players are writes to records that exist, which the rules
\* of players/{id} refuse to a client that has not signed in.
DeliverPlayers(c) ==
  /\ c \in joined
  /\ pend[c]["players"] # <<>>
  /\ players' = [players EXCEPT
                   ![c] = updatePlayers(@, Head(pend[c]["players"]), c, now).cache]
  /\ pend' = [pend EXCEPT ![c]["players"] = Tail(@)]
  /\ UNCHANGED <<now, dbPlayers, dbShapes, dbGame, nextId, joined, shapes,
                 gameState, thenQ, lastShapeUpdate, gmLastSpawn, nullAs, spawnLog, sentinels, simLocks, dups,
                 harness>>

\* onValue(shapesRef): updateShapes(shapes)
DeliverShapes(c) ==
  /\ c \in joined
  /\ pend[c]["shapes"] # <<>>
  /\ Commit(c, updateShapes(World(c), Head(pend[c]["shapes"]), now), {"shapes"})
  /\ UNCHANGED <<now, dbPlayers, joined, players, gameState, gmLastSpawn,
                 nullAs, simLocks, harness>>

\* onValue(gameStateRef): this.gameState = snapshot.val() || {};
\* handleGameStateUpdate()
DeliverGameState(c) ==
  /\ c \in joined
  /\ pend[c]["gameState"] # <<>>
  /\ LET gs == Head(pend[c]["gameState"])
         w == handleGameStateUpdate(World(c), c, gs, players[c], now)
     IN  /\ Len(w.thn) <= MaxThen
         /\ Commit(c, w, {"gameState"})
         /\ gameState' = [gameState EXCEPT ![c] = gs]
  /\ UNCHANGED <<now, dbPlayers, joined, players, gmLastSpawn, nullAs, simLocks, harness>>

\* the .then() of the sentinel write: spawnNewShape()
SentinelThen(c) ==
  /\ thenQ[c] # <<>>
  /\ nextId <= MaxShapes
  /\ \E type \in SpawnTypes, x \in SpawnXs :
        Commit(c, addShape([World(c) EXCEPT !.thn = Tail(@)], c, type, x, now,
                           "arbitration", Head(thenQ[c])), {})
  /\ UNCHANGED <<now, dbPlayers, joined, players, gameState, gmLastSpawn,
                 nullAs, simLocks, harness>>

\* GameManager.update(currentTime): the spawn check and spawnShape(), then
\* updateShapes(currentTime)
Frame(c) ==
  /\ c \in joined
  /\ LET spawn == gmShouldSpawn(shapes[c], gmLastSpawn[c], now)
     IN  /\ spawn => nextId <= MaxShapes
         /\ \E type \in SpawnTypes, x \in SpawnXs :
              LET w1 == IF spawn
                        THEN addShape(World(c), c, type, x, now, "frame", NoGame)
                        ELSE World(c)
                  w2 == gmUpdateShapes(w1, InOrder(DOMAIN w1.sh, IdOrder), now)
              IN  /\ Commit(c, w2, {})
                  /\ simLocks' = simLocks \cup
                       {<<c, id>> : id \in {i \in DOMAIN w1.sh :
                                                   ~w1.sh[i].isLocked /\ w2.sh[i].isLocked}}
         /\ gmLastSpawn' = [gmLastSpawn EXCEPT ![c] = IF spawn THEN now ELSE @]
  /\ UNCHANGED <<now, dbPlayers, joined, players, gameState, nullAs, harness>>

Next ==
  \/ Tick
  \/ \E c \in Clients : Join(c)
  \/ \E c \in Clients : DeliverPlayers(c)
  \/ \E c \in Clients : DeliverShapes(c)
  \/ \E c \in Clients : DeliverGameState(c)
  \/ \E c \in Clients : SentinelThen(c)
  \/ \E c \in Clients : Frame(c)

Spec == Init /\ [][Next]_vars

-----------------------------------------------------------------------------
(* Player input: two clients and a piece high above the ground, which a     *)
(* player turns or shifts.                                                  *)

\* the store when the pages load: the piece an earlier session spawned last
FreshShapes ==
  [id \in {"s1"} |-> [LeftoverShapes[id] EXCEPT !.y = SpawnY]]

InitInput ==
  /\ now = 0
  /\ nullAs = Null
  /\ dbPlayers = EmptyMap
  /\ dbShapes = FreshShapes /\ dbGame = LeftoverGame /\ nextId = 2
  /\ joined = {}
  /\ players = [c \in Clients |-> <<>>]
  /\ shapes = [c \in Clients |-> EmptyMap]
  /\ gameState = [c \in Clients |-> NoGame]
  /\ pend = [c \in Clients |-> [path \in Paths |-> <<>>]]
  /\ thenQ = [c \in Clients |-> <<>>]
  /\ lastShapeUpdate = [c \in Clients |-> NeverUpdated]
  /\ gmLastSpawn = [c \in Clients |-> 0]
  /\ spawnLog = {}
  /\ sentinels = {}
  /\ simLocks = {}
  /\ dups = [c \in Clients |-> {}]
  /\ inputs = 0
  /\ calls = <<>>
  /\ boot = [c \in Clients |-> NotBooted]
  /\ net = NoNet
  /\ cast = NoCast
  /\ disp = NoDisp
  /\ snapP = EmptyMap
  /\ snapS = EmptyMap
  /\ bul = NoBul
  /\ lab = NoLab
  /\ idem = [players |-> <<>>, shapes |-> <<>>]

\* handleShoot() / rotateShapeInView() with the camera on a block of piece
\* id: startRotation(true), then the rotation patch
Shoot(c) ==
  /\ c \in joined
  /\ inputs < MaxInputs
  /\ inputs' = inputs + 1
  /\ \E id \in ActiveUnlocked(shapes[c]) :
        LET w1 == [World(c) EXCEPT !.sh[id] = startRotation(@)]
        IN  Commit(c, updateShapeStateRotating(w1, id, now), {})
  /\ UNCHANGED <<now, dbPlayers, joined, players, gameState, gmLastSpawn, nullAs,
                 simLocks, calls, net, cast, disp, boot, bul, lab, snapP, snapS, idem>>

\* a shift that does not look at the grid
moveShapeInViewUnbounded(w, id, dx, t) ==
  LET sh == w.sh[id]
      isOnGround == \E p \in BlockPositions(sh) : p[2] <= 0
  IN  IF isOnGround THEN w
      ELSE updateShapeState(
             [w EXCEPT !.sh[id] = updateBlockPositions([sh EXCEPT !.x = sh.x + dx])],
             id, FALSE, t)

\* moveShapeInView(direction) with the camera on a block of piece id
moveShapeInView(w, id, dx, t) ==
  LET sh == w.sh[id]
      isOnGround == \E p \in BlockPositions(sh) : p[2] <= 0
  IN  IF isOnGround \/ Abs(sh.x + dx) > gridHalf THEN w
      ELSE updateShapeState(
             [w EXCEPT !.sh[id] = updateBlockPositions([sh EXCEPT !.x = sh.x + dx])],
             id, FALSE, t)

Shift(c) ==
  /\ c \in joined
  /\ inputs < MaxInputs
  /\ inputs' = inputs + 1
  /\ \E id \in ActiveUnlocked(shapes[c]), dx \in {0 - 2, 2} :
        Commit(c, moveShapeInView(World(c), id, dx, now), {})
  /\ UNCHANGED <<now, dbPlayers, joined, players, gameState, gmLastSpawn, nullAs,
                 simLocks, calls, net, cast, disp, boot, bul, lab, snapP, snapS, idem>>

NextInput ==
  \/ Tick
  \/ \E c \in Clients : Join(c)
  \/ \E c \in Clients : DeliverPlayers(c)
  \/ \E c \in Clients : DeliverShapes(c)
  \/ \E c \in Clients : DeliverGameState(c)
  \/ \E c \in Clients : Frame(c)
  \/ \E c \in Clients : Shoot(c)
  \/ \E c \in Clients : Shift(c)

SpecInput == InitInput /\ [][NextInput]_vars

-----------------------------------------------------------------------------
(* The throttle of updateShapeState: one client, holding a piece that is    *)
(* falling or that its own simulation has locked, calls updateShapeState    *)
(* at times 100 ms apart.                                                   *)

ThrottleClient == "c1"

\* the cache after updateShapes(FreshShapes), with the piece falling or
\* locked by Shape.update
ThrottleCaches ==
  LET w0 == [sh |-> EmptyMap, lsu |-> NeverUpdated, dbS |-> FreshShapes,
             dbG |-> LeftoverGame, nid |-> 2, dirty |-> {}, log |-> {},
             thn |-> <<>>, sent |-> FALSE]
      sh == updateShapes(w0, FreshShapes, 0).sh
  IN  {sh, [sh EXCEPT !["s1"].isLocked = TRUE, !["s1"].isActive = FALSE]}

InitThrottle ==
  /\ now = 0
  /\ nullAs = Null
  /\ dbPlayers = EmptyMap
  /\ dbShapes = FreshShapes /\ dbGame = LeftoverGame /\ nextId = 2
  /\ joined = {}
  /\ players = [c \in Clients |-> <<>>]
  /\ \E sh \in ThrottleCaches :
        shapes = [c \in Clients |-> IF c = ThrottleClient THEN sh ELSE EmptyMap]
  /\ gameState = [c \in Clients |-> NoGame]
  /\ pend = [c \in Clients |-> [path \in Paths |-> <<>>]]
  /\ thenQ = [c \in Clients |-> <<>>]
  /\ lastShapeUpdate = [c \in Clients |-> NeverUpdated]
  /\ gmLastSpawn = [c \in Clients |-> 0]
  /\ spawnLog = {}
  /\ sentinels = {}
  /\ simLocks = {}
  /\ dups = [c \in Clients |-> {}]
  /\ inputs = 0
  /\ calls = <<>>
  /\ boot = [c \in Clients |-> NotBooted]
  /\ net = NoNet
  /\ cast = NoCast
  /\ disp = NoDisp
  /\ snapP = EmptyMap
  /\ snapS = EmptyMap
  /\ bul = NoBul
  /\ lab = NoLab
  /\ idem = [players |-> <<>>, shapes |-> <<>>]

\* 100 ms pass
TickThrottle ==
  /\ now < 3 * shapeUpdateInterval
  /\ now' = now + 100
  /\ UNCHANGED <<dbPlayers, dbShapes, dbGame, nextId, joined, players, shapes,
                 gameState, pend, thenQ, lastShapeUpdate, gmLastSpawn, nullAs,
                 spawnLog, sentinels, simLocks, dups, harness>>

\* updateShapeState("s1", state) with a position patch, a lock patch or a
\* rotation patch
CallUpdateShapeState ==
  /\ Len(calls) < MaxCalls
  /\ \E kind \in {"position", "lock", "rotation"} :
        LET w0 == World(ThrottleClient)
            w1 == IF kind = "rotation" THEN updateShapeStateRotating(w0, "s1", now)
                  ELSE updateShapeState(w0, "s1", kind = "lock", now)
        IN  /\ Commit(ThrottleClient, w1, {})
            /\ calls' = Append(calls,
                  [t |-> now, lock |-> kind = "lock",
                   active |-> w0.sh["s1"].isActive,
                   since |-> now - w0.lsu,
                   wrote |-> "shapes" \in w1.dirty,
                   touched |-> w1.sh # w0.sh \/ w1.lsu # w0.lsu])
  /\ UNCHANGED <<now, dbPlayers, joined, players, gameState, gmLastSpawn, nullAs,
                 simLocks, inputs, net, cast, disp, boot, bul, lab, snapP, snapS, idem>>

NextThrottle == TickThrottle \/ CallUpdateShapeState

SpecThrottle == InitThrottle /\ [][NextThrottle]_vars

-----------------------------------------------------------------------------
(* initialize() with a store request that is rejected.                      *)

\* the paths initialize() subscribes to
SubscribedPaths == {"players", "shapes", "scores", "gameState"}

\* the store requests of initialize(), in program order; the rejected one is
\* drawn from these, "none" when all succeed
InitRequests ==
  <<"getTakenNicknames", "setPlayer", "onDisconnect", "getPlayers",
    "setGameState", "setScore">>

\* the position of a request in the program order (7 for "none")
RequestIndex(r) ==
  IF r \in SeqToSet(InitRequests)
  THEN CHOOSE i \in 1..Len(InitRequests) : InitRequests[i] = r
  ELSE Len(InitRequests) + 1

\* initialize() of client c on the players listing P and game state G when
\* request fail is rejected.  An awaited request that is rejected throws
\* into the one try/catch around the body, which skips everything after it;
\* the rejection of onDisconnect().update(), which is not awaited, skips
\* nothing.  The result has the store afterwards and the paths subscribed.
initialize(c, P, G, fail, t) ==
  LET at == RequestIndex(fail)
      \* the statements after request i are reached
      past(i) == at > i \/ fail = "onDisconnect"
      P1 == IF past(2) THEN With(P, c, [online |-> TRUE, lastSeen |-> t]) ELSE P
      first == past(4) /\ DOMAIN P1 = {}
      G1 == IF first /\ fail # "setGameState"
            THEN [has |-> TRUE, isActive |-> TRUE, currentShapeId |-> nullAs,
                  lastSpawnTime |-> t, createdBy |-> c]
            ELSE G
  IN  [P |-> P1, G |-> G1,
       subscribed |-> IF past(2) THEN SubscribedPaths ELSE {},
       returned |-> TRUE]

\* initialize() of client c, run when the page loads
Initialize(c) ==
  /\ ~boot[c].returned
  /\ \E fail \in SeqToSet(InitRequests) \cup {"none"} :
        LET r == initialize(c, dbPlayers, dbGame, fail, now)
        IN  /\ boot' = [boot EXCEPT ![c] = [fail |-> fail, subscribed |-> r.subscribed,
                                            returned |-> r.returned]]
            /\ dbPlayers' = r.P
            /\ dbGame' = r.G
            /\ joined' = IF r.subscribed # {} THEN joined \cup {c} ELSE joined
            /\ pend' = [d \in Clients |->
                          IF d = c /\ r.subscribed # {}
                          THEN [path \in Paths |-> <<Snapshot(path, r.P, dbShapes, r.G)>>]
                          ELSE IF d \in joined /\ r.P # dbPlayers
                          THEN [pend[d] EXCEPT !["players"] = Enqueue(@, r.P)]
                          ELSE pend[d]]
  /\ UNCHANGED <<now, dbShapes, nextId, players, shapes, gameState, thenQ,
                 lastShapeUpdate, gmLastSpawn, nullAs, spawnLog, sentinels, simLocks,
                 dups, inputs, calls, net, cast, disp, bul, lab, snapP, snapS, idem>>

NextBoot ==
  \/ \E c \in Clients : Initialize(c)
  \/ \E c \in Clients : DeliverPlayers(c)

SpecBoot == Init /\ [][NextBoot]_vars

-----------------------------------------------------------------------------
(* The peer layer: two running clients, both online in the players listing, *)
(* whose data connections close or fail and are dialed again.               *)

\* set(ref(database, `players/${id}`), record) by a client that has not
\* signed in: the rules of players/{id} let it create a record and refuse
\* it any write to a record that exists
StoreSetPlayer(P, id, record) == IF id \in DOMAIN P THEN P ELSE With(P, id, record)

\* existingConn && existingConn.open for peer p in the connections Map of c
connOpen(n, c, p) ==
  \/ n.entry[c][p] = "out" /\ n.link[<<c, p>>] = "open"
  \/ n.entry[c][p] = "in" /\ n.link[<<p, c>>] = "open"

\* a close or error handler that forgets the peer and schedules nothing
onConnectionLostNoRetry(n, c, p) ==
  [n EXCEPT !.entry[c][p] = "none", !.owed[c][p] = TRUE]

\* the "close" and "error" handlers of a connection of c with p:
\* this.connections.delete(peer); setTimeout(() => this.reconnectToPeers(), 5000)
onConnectionLost(n, c, p) ==
  [n EXCEPT !.entry[c][p] = "none", !.owed[c][p] = TRUE, !.timers[c] = @ + 1]

\* connectToOnlinePeers(players) of client c: dial every other online player
\* for whom the Map holds no open connection
RECURSIVE connectToOnlinePeers(_, _, _, _)
connectToOnlinePeers(n, c, listing, todo) ==
  IF todo = <<>> THEN n
  ELSE LET p == Head(todo)
           dial == p # c /\ listing[p].online /\ ~connOpen(n, c, p)
           n1 == IF dial
                 THEN [n EXCEPT !.link[<<c, p>>] = IF @ = "none" THEN "dialing" ELSE @,
                                !.owed[c][p] = FALSE]
                 ELSE n
       IN  connectToOnlinePeers(n1, c, listing, Tail(todo))

InitPeer ==
  /\ now = 0
  /\ nullAs = Null
  /\ dbPlayers = [c \in Clients |-> [online |-> TRUE, lastSeen |-> 0]]
  /\ dbShapes = EmptyMap /\ dbGame = ResetGame /\ nextId = 1
  /\ joined = Clients
  /\ players = [c \in Clients |-> InOrder(Clients \ {c}, PlayerKeyOrder)]
  /\ shapes = [c \in Clients |-> EmptyMap]
  /\ gameState = [c \in Clients |-> ResetGame]
  /\ pend = [c \in Clients |-> [path \in Paths |-> <<>>]]
  /\ thenQ = [c \in Clients |-> <<>>]
  /\ lastShapeUpdate = [c \in Clients |-> NeverUpdated]
  /\ gmLastSpawn = [c \in Clients |-> 0]
  /\ spawnLog = {}
  /\ sentinels = {}
  /\ simLocks = {}
  /\ dups = [c \in Clients |-> {}]
  /\ inputs = 0
  /\ calls = <<>>
  /\ boot = [c \in Clients |-> NotBooted]
  /\ net = NoNet
  /\ cast = NoCast
  /\ disp = NoDisp
  /\ snapP = EmptyMap
  /\ snapS = EmptyMap
  /\ bul = NoBul
  /\ lab = NoLab
  /\ idem = [players |-> <<>>, shapes |-> <<>>]

peerFrame == <<now, dbShapes, dbGame, nextId, joined, players, shapes, gameState,
               pend, thenQ, lastShapeUpdate, gmLastSpawn, nullAs, spawnLog,
               sentinels, simLocks, dups, inputs, calls, cast, disp, boot, bul, lab, snapP, snapS,
               idem>>

\* onValue(playersRef) of client c: connectToOnlinePeers(players)
PlayersListed(c) ==
  /\ net.entry[c] = [p \in Clients |-> "none"]
  /\ \A p \in Clients : net.link[<<c, p>>] = "none" /\ ~net.owed[c][p]
  /\ net.timers[c] = 0 /\ net.reads[c] = 0
  /\ net' = connectToOnlinePeers(net, c, dbPlayers, InOrder(DOMAIN dbPlayers, PlayerKeyOrder))
  /\ net' # net
  /\ UNCHANGED <<dbPlayers, peerFrame>>

\* the connection c dialed to p opens: handlePeerConnection(conn) on c, the
\* "connection" event and handlePeerConnection(conn) on p, and the write of
\* p's record by c, online again
DialOpens(c, p) ==
  /\ net.link[<<c, p>>] = "dialing"
  /\ net' = [net EXCEPT !.link[<<c, p>>] = "open", !.entry[c][p] = "out",
                         !.entry[p][c] = "in"]
  /\ dbPlayers' = StoreSetPlayer(dbPlayers, p, [online |-> TRUE, lastSeen |-> now])
  /\ UNCHANGED peerFrame

\* the connection c dialed to p fails before it opens: conn.on("error")
DialFails(c, p) ==
  /\ net.link[<<c, p>>] = "dialing"
  /\ net.drops < MaxDrops /\ net.timers[c] < MaxTimers
  /\ net' = [onConnectionLost([net EXCEPT !.link[<<c, p>>] = "none"], c, p)
                EXCEPT !.drops = @ + 1]
  /\ UNCHANGED <<dbPlayers, peerFrame>>

\* the open connection c dialed to p closes: the "close" handlers of both
\* ends, each writing the other's record as offline
LinkCloses(c, p) ==
  /\ net.link[<<c, p>>] = "open"
  /\ net.drops < MaxDrops
  /\ net.timers[c] < MaxTimers /\ net.timers[p] < MaxTimers
  /\ net' = [onConnectionLost(
                onConnectionLost([net EXCEPT !.link[<<c, p>>] = "none"], c, p), p, c)
                EXCEPT !.drops = @ + 1]
  /\ dbPlayers' = StoreSetPlayer(
                     StoreSetPlayer(dbPlayers, p, [online |-> FALSE, lastSeen |-> now]),
                     c, [online |-> FALSE, lastSeen |-> now])
  /\ UNCHANGED peerFrame

\* a reconnect timer of c fires: reconnectToPeers() reads the listing
TimerFires(c) ==
  /\ net.timers[c] > 0
  /\ net' = [net EXCEPT !.timers[c] = @ - 1, !.reads[c] = @ + 1]
  /\ UNCHANGED <<dbPlayers, peerFrame>>

\* the listing read of reconnectToPeers() returns: connectToOnlinePeers(players)
ReadReturns(c) ==
  /\ net.reads[c] > 0
  /\ net' = connectToOnlinePeers([net EXCEPT !.reads[c] = @ - 1], c, dbPlayers,
                                  InOrder(DOMAIN dbPlayers, PlayerKeyOrder))
  /\ UNCHANGED <<dbPlayers, peerFrame>>

NextPeer ==
  \/ \E c \in Clients : PlayersListed(c)
  \/ \E c \in Clients : \E p \in Clients \ {c} : DialOpens(c, p)
  \/ \E c \in Clients : \E p \in Clients \ {c} : DialFails(c, p)
  \/ \E c \in Clients : \E p \in Clients \ {c} : LinkCloses(c, p)
  \/ \E c \in Clients : TimerFires(c)
  \/ \E c \in Clients : ReadReturns(c)

\* a timer that is set fires, and a read of the store returns
SpecPeer ==
  /\ InitPeer /\ [][NextPeer]_vars
  /\ \A c \in Clients : WF_vars(TimerFires(c)) /\ WF_vars(ReadReturns(c))

-----------------------------------------------------------------------------
(* The peer layer with pages that go away: dispose() on a client whose      *)
(* connections are dialed, open or lost, and whose reconnect timers and     *)
(* listing reads are pending.                                               *)

\* disposed: the clients on which dispose() has run
QuitBench == [on |-> TRUE, disposed |-> {}]

InitQuit ==
  /\ now = 0
  /\ nullAs = Null
  /\ dbPlayers = [c \in Clients |-> [online |-> TRUE, lastSeen |-> 0]]
  /\ dbShapes = EmptyMap /\ dbGame = ResetGame /\ nextId = 1
  /\ joined = Clients
  /\ players = [c \in Clients |-> InOrder(Clients \ {c}, PlayerKeyOrder)]
  /\ shapes = [c \in Clients |-> EmptyMap]
  /\ gameState = [c \in Clients |-> ResetGame]
  /\ pend = [c \in Clients |-> [path \in Paths |-> <<>>]]
  /\ thenQ = [c \in Clients |-> <<>>]
  /\ lastShapeUpdate = [c \in Clients |-> NeverUpdated]
  /\ gmLastSpawn = [c \in Clients |-> 0]
  /\ spawnLog = {}
  /\ sentinels = {}
  /\ simLocks = {}
  /\ dups = [c \in Clients |-> {}]
  /\ inputs = 0
  /\ calls = <<>>
  /\ boot = [c \in Clients |-> NotBooted]
  /\ net = NoNet
  /\ cast = NoCast
  /\ disp = NoDisp
  /\ snapP = EmptyMap
  /\ snapS = EmptyMap
  /\ bul = NoBul
  /\ lab = QuitBench
  /\ idem = [players |-> <<>>, shapes |-> <<>>]

quitFrame == <<now, dbShapes, dbGame, nextId, joined, players, shapes, gameState,
               pend, thenQ, lastShapeUpdate, gmLastSpawn, nullAs, spawnLog,
               sentinels, simLocks, dups, inputs, calls, cast, disp, boot, bul,
               snapP, snapS, idem>>

\* the loop of dispose() over the connections Map of c, peer p: conn.close()
\* on an open connection runs the "close" handlers of both ends
RECURSIVE closeConnections(_, _, _)
closeConnections(n, c, todo) ==
  IF todo = <<>> THEN n
  ELSE LET p == Head(todo)
           e == IF n.entry[c][p] = "out" THEN <<c, p>> ELSE <<p, c>>
           n1 == IF p # c /\ connOpen(n, c, p)
                 THEN [onConnectionLost(
                         onConnectionLost([n EXCEPT !.link[e] = "none"], c, p), p, c)
                         EXCEPT !.drops = @ + 1]
                 ELSE n
       IN  closeConnections(n1, c, Tail(todo))

\* dispose() of c on the peer layer: the open connections are closed, the
\* Map is cleared, and destroy() ends the connections that have not opened
disposePeer(n, c) ==
  LET n1 == closeConnections(n, c, InOrder(Clients, PlayerKeyOrder))
  IN  [n1 EXCEPT !.entry[c] = [p \in Clients |-> "none"],
                 !.link = [e \in Clients \X Clients |->
                              IF e[1] = c /\ @[e] = "dialing" THEN "none" ELSE @[e]]]

\* the page of c goes away: dispose().  The record of c exists and no page
\* has signed in, so the rules refuse set(this.playerRef, null) and the
\* writes of the "close" handlers
Quit(c) ==
  /\ c \notin lab.disposed
  /\ net.drops < MaxDrops
  /\ \A p \in Clients : net.timers[p] < MaxTimers
  /\ net' = disposePeer(net, c)
  /\ lab' = [lab EXCEPT !.disposed = @ \cup {c}]
  /\ UNCHANGED <<dbPlayers, quitFrame>>

\* the steps of the peer layer; a connection with a page that has gone away
\* does not open
NextQuit ==
  \/ \E c \in Clients : PlayersListed(c)
  \/ \E c \in Clients : \E p \in Clients \ {c} :
        DialOpens(c, p) /\ {c, p} \cap lab.disposed = {}
  \/ \E c \in Clients : \E p \in Clients \ {c} : DialFails(c, p)
  \/ \E c \in Clients : \E p \in Clients \ {c} : LinkCloses(c, p)
  \/ \E c \in Clients : TimerFires(c)
  \/ \E c \in Clients : ReadReturns(c)
  \/ \E c \in Clients : Quit(c)

SpecQuit == InitQuit /\ [][NextQuit]_vars

-----------------------------------------------------------------------------
(* One broadcast of the own position over every connections Map of up to    *)
(* three peers, each connection open or not and its send() throwing or not. *)

CastPeers == <<"p1", "p2", "p3">>

\* the connections Map built from the state chosen for each peer
RECURSIVE MapOf(_, _)
MapOf(state, i) ==
  IF i > Len(CastPeers) THEN <<>>
  ELSE LET p == CastPeers[i]
           rest == MapOf(state, i + 1)
       IN  IF state[p] = "absent" THEN rest
           ELSE <<[peer |-> p, open |-> state[p] # "closed",
                   throws |-> state[p] = "faulty"]>> \o rest

\* a broadcast whose loop is left by the first send() that throws
RECURSIVE broadcastToPeersAborting(_, _, _)
broadcastToPeersAborting(conns, i, acc) ==
  IF i > Len(conns) THEN acc
  ELSE LET conn == conns[i]
       IN  IF ~conn.open THEN broadcastToPeersAborting(conns, i + 1, acc)
           ELSE IF conn.throws
                THEN [acc EXCEPT !.tried = Append(@, conn.peer), !.raised = TRUE]
                ELSE broadcastToPeersAborting(conns, i + 1,
                       [acc EXCEPT !.tried = Append(@, conn.peer),
                                   !.delivered = Append(@, conn.peer)])

\* broadcastToPeers(data), from connection i of the Map on:
\* if (conn.open) { try { conn.send(data) } catch (error) { console.warn } }
RECURSIVE broadcastToPeers(_, _, _)
broadcastToPeers(conns, i, acc) ==
  IF i > Len(conns) THEN acc
  ELSE LET conn == conns[i]
           acc1 == IF ~conn.open THEN acc
                   ELSE IF conn.throws
                        THEN [acc EXCEPT !.tried = Append(@, conn.peer)]
                        ELSE [acc EXCEPT !.tried = Append(@, conn.peer),
                                         !.delivered = Append(@, conn.peer)]
       IN  broadcastToPeers(conns, i + 1, acc1)

\* updatePlayerPosition(data): if (!data) return; the broadcast inside a
\* try whose catch logs
updatePlayerPosition(k) ==
  IF ~k.data THEN [k EXCEPT !.outcome = "returned"]
  ELSE LET b == broadcastToPeers(k.conns, 1,
                  [tried |-> <<>>, delivered |-> <<>>, raised |-> FALSE])
       IN  [k EXCEPT !.tried = b.tried, !.delivered = b.delivered,
                     !.outcome = "returned"]

InitCast ==
  /\ now = 0
  /\ nullAs = Null
  /\ dbPlayers = EmptyMap /\ dbShapes = EmptyMap /\ dbGame = NoGame /\ nextId = 1
  /\ joined = {}
  /\ players = [c \in Clients |-> <<>>]
  /\ shapes = [c \in Clients |-> EmptyMap]
  /\ gameState = [c \in Clients |-> NoGame]
  /\ pend = [c \in Clients |-> [path \in Paths |-> <<>>]]
  /\ thenQ = [c \in Clients |-> <<>>]
  /\ lastShapeUpdate = [c \in Clients |-> NeverUpdated]
  /\ gmLastSpawn = [c \in Clients |-> 0]
  /\ spawnLog = {}
  /\ sentinels = {}
  /\ simLocks = {}
  /\ dups = [c \in Clients |-> {}]
  /\ inputs = 0
  /\ calls = <<>>
  /\ boot = [c \in Clients |-> NotBooted]
  /\ net = NoNet
  /\ \E state \in [{CastPeers[i] : i \in 1..Len(CastPeers)} ->
                       {"absent", "open", "faulty", "closed"}], data \in BOOLEAN :
        cast = [NoCast EXCEPT !.conns = MapOf(state, 1), !.data = data]
  /\ disp = NoDisp
  /\ snapP = EmptyMap
  /\ snapS = EmptyMap
  /\ bul = NoBul
  /\ lab = NoLab
  /\ idem = [players |-> <<>>, shapes |-> <<>>]

\* the game loop reports the own position
CallUpdatePlayerPosition ==
  /\ cast.outcome = "idle"
  /\ cast' = updatePlayerPosition(cast)
  /\ UNCHANGED <<now, dbPlayers, dbShapes, dbGame, nextId, joined, players, shapes,
                 gameState, pend, thenQ, lastShapeUpdate, gmLastSpawn, nullAs,
                 spawnLog, sentinels, simLocks, dups, inputs, calls, net, disp,
                 boot, bul, lab, snapP, snapS, idem>>

NextCast == CallUpdatePlayerPosition

SpecCast == InitCast /\ [][NextCast]_vars

-----------------------------------------------------------------------------
(* dispose() of a client at any point of its life: before the endpoint is   *)
(* made, before the own record is written, or with a connections Map of up  *)
(* to three peers whose connections are not open yet, open, or closed.      *)

\* the connections Map built from the state chosen for each peer
RECURSIVE HeldMapOf(_, _)
HeldMapOf(state, i) ==
  IF i > Len(CastPeers) THEN <<>>
  ELSE LET p == CastPeers[i]
           rest == HeldMapOf(state, i + 1)
       IN  IF state[p] = "absent" THEN rest
           ELSE <<[peer |-> p, state |-> state[p]]>> \o rest

\* this.connections.forEach((conn) => { if (conn.open) conn.close() })
closeOpen(conns) ==
  [i \in 1..Len(conns) |->
     IF conns[i].state = "open" THEN [conns[i] EXCEPT !.state = "closed"]
     ELSE conns[i]]

\* the close() calls of that loop, in Map order
closeCalls(conns) ==
  LET open == SelectSeq(conns, LAMBDA conn : conn.state = "open")
  IN  [i \in 1..Len(open) |-> [op |-> "close", peer |-> open[i].peer]]

\* a dispose() that leaves the connections Map as it is
disposeUncleared(d) ==
  LET deleted == IF d.playerRef THEN <<[op |-> "delete", peer |-> "self"]>> ELSE <<>>
  IN  IF d.peer
      THEN [d EXCEPT !.held = d.conns,
                     !.conns = closeOpen(d.conns),
                     !.atDestroy = closeOpen(d.conns),
                     !.log = deleted \o closeCalls(d.conns)
                               \o <<[op |-> "destroy", peer |-> "self"]>>,
                     !.disposed = TRUE]
      ELSE [d EXCEPT !.held = d.conns, !.log = deleted, !.disposed = TRUE]

\* dispose(): set(this.playerRef, null) if the reference is set; then, if
\* the endpoint is set, close() on every open connection, connections.clear()
\* and peer.destroy()
dispose(d) ==
  LET deleted == IF d.playerRef THEN <<[op |-> "delete", peer |-> "self"]>> ELSE <<>>
  IN  IF d.peer
      THEN [d EXCEPT !.held = d.conns,
                     !.conns = <<>>,
                     !.atDestroy = closeOpen(d.conns),
                     !.log = deleted \o closeCalls(d.conns)
                               \o <<[op |-> "clear", peer |-> "self"],
                                    [op |-> "destroy", peer |-> "self"]>>,
                     !.disposed = TRUE]
      ELSE [d EXCEPT !.held = d.conns, !.log = deleted, !.disposed = TRUE]

InitDispose ==
  /\ now = 0
  /\ nullAs = Null
  /\ dbPlayers = EmptyMap /\ dbShapes = EmptyMap /\ dbGame = NoGame /\ nextId = 1
  /\ joined = {}
  /\ players = [c \in Clients |-> <<>>]
  /\ shapes = [c \in Clients |-> EmptyMap]
  /\ gameState = [c \in Clients |-> NoGame]
  /\ pend = [c \in Clients |-> [path \in Paths |-> <<>>]]
  /\ thenQ = [c \in Clients |-> <<>>]
  /\ lastShapeUpdate = [c \in Clients |-> NeverUpdated]
  /\ gmLastSpawn = [c \in Clients |-> 0]
  /\ spawnLog = {}
  /\ sentinels = {}
  /\ simLocks = {}
  /\ dups = [c \in Clients |-> {}]
  /\ inputs = 0
  /\ calls = <<>>
  /\ boot = [c \in Clients |-> NotBooted]
  /\ net = NoNet
  /\ cast = NoCast
  /\ \/ disp = NoDisp
     \/ \E state \in [{CastPeers[i] : i \in 1..Len(CastPeers)} ->
                          {"absent", "connecting", "open", "closed"}],
           ref \in BOOLEAN :
          disp = [NoDisp EXCEPT !.peer = TRUE, !.playerRef = ref,
                                !.conns = HeldMapOf(state, 1)]
  /\ snapP = EmptyMap
  /\ snapS = EmptyMap
  /\ bul = NoBul
  /\ lab = NoLab
  /\ idem = [players |-> <<>>, shapes |-> <<>>]

\* the page goes away
Dispose ==
  /\ ~disp.disposed
  /\ disp' = dispose(disp)
  /\ UNCHANGED <<now, dbPlayers, dbShapes, dbGame, nextId, joined, players, shapes,
                 gameState, pend, thenQ, lastShapeUpdate, gmLastSpawn, nullAs,
                 spawnLog, sentinels, simLocks, dups, inputs, calls, net, cast,
                 boot, bul, lab, snapP, snapS, idem>>

NextDispose == Dispose

SpecDispose == InitDispose /\ [][NextDispose]_vars

-----------------------------------------------------------------------------
(* Bullets and peer messages: client c1 with a falling piece in its cache   *)
(* (or two, spawned twice at the same place), its own shots and the         *)
(* position and bullet messages of the other client.  No other client is    *)
(* subscribed to the store here.                                            *)

BulletClient == "c1"

MaxBulletTime == 9000

\* the shapes path when the pages load: the same piece spawned twice
TwinShapes ==
  [id \in {"s1", "s2"} |-> [LeftoverShapes["s1"] EXCEPT !.y = SpawnY]]

\* the bullet messages the other client can send: in the lowest block of
\* the piece, and half a cell in front of it
BulletMessages ==
  {[playerId |-> "c2", timestamp |-> 1, x |-> -2, y |-> 2 * SpawnY - 2, z |-> 0],
   [playerId |-> "c2", timestamp |-> 2, x |-> -2, y |-> 2 * SpawnY - 2, z |-> 2]}

\* where the own shots start: in the lowest block of the piece
ShotPositions == {<<-2, 2 * SpawnY - 3, 1>>}

\* the position messages the other client can send: standing, and jumping
\* as updatePlayerPosition() builds it (no velocity) or with a velocity
PositionMessages ==
  {[x |-> 8, y |-> 3, z |-> 0, isJumping |-> FALSE, hasVelocity |-> FALSE, velocity |-> 0],
   [x |-> 8, y |-> 3, z |-> 0, isJumping |-> TRUE, hasVelocity |-> FALSE, velocity |-> 0],
   [x |-> 8, y |-> 3, z |-> 0, isJumping |-> TRUE, hasVelocity |-> TRUE, velocity |-> 2]}

\* checkBulletCollision(bullet, shape): the bullet is closer than
\* collisionThreshold to a block mesh on all three axes
checkBulletCollision(bullet, sh) ==
  \E q \in BlockPositions(sh) :
     /\ Abs(bullet.x - 2 * q[1]) < collisionThreshold
     /\ Abs(bullet.y - 2 * q[2]) < collisionThreshold
     /\ Abs(bullet.z) < collisionThreshold

\* the first piece of the cache, in Map order, that is unlocked and active
\* and that the bullet hits; Null if none
RECURSIVE firstHit(_, _, _)
firstHit(sh, ids, bullet) ==
  IF ids = <<>> THEN Null
  ELSE IF /\ ~sh[Head(ids)].isLocked /\ sh[Head(ids)].isActive
          /\ checkBulletCollision(bullet, sh[Head(ids)])
       THEN Head(ids)
       ELSE firstHit(sh, Tail(ids), bullet)

\* handlePeerBullet(data) on the bullets cache and the shapes cache
handlePeerBullet(cache, sh, data, t) ==
  LET bulletId == <<data.playerId, data.timestamp>>
      bullet == [x |-> data.x, y |-> data.y, z |-> data.z,
                 entered |-> IF bulletId \in DOMAIN cache
                             THEN cache[bulletId].entered ELSE t]
      hit == firstHit(sh, InOrder(DOMAIN sh, IdOrder), bullet)
  IN  IF hit = Null
      THEN [cache |-> With(cache, bulletId, bullet), sh |-> sh]
      ELSE [cache |-> Without(cache, bulletId),
            sh |-> [sh EXCEPT ![hit] = startRotation(@)]]

\* addBullet(data): this.bullets.set(this.playerId + "_" + timestamp, bullet)
addBullet(cache, c, pos, t) ==
  With(cache, <<c, t>>, [x |-> pos[1], y |-> pos[2], z |-> pos[3], entered |-> t])

\* handlePeerPosition(peerId, data) on the Player object of the peer; a
\* jump sent without a velocity throws at data.velocity.x, into the catch
handlePeerPosition(player, data) ==
  LET p1 == [player EXCEPT !.x = data.x, !.y = data.y, !.z = data.z]
      p2 == IF data.hasVelocity THEN [p1 EXCEPT !.velocity = data.velocity] ELSE p1
      p3 == [p2 EXCEPT !.figX = data.x, !.figY = data.y, !.figZ = data.z]
  IN  IF data.isJumping
      THEN IF data.hasVelocity
           THEN [p3 EXCEPT !.velocity = data.velocity, !.isOnGround = FALSE,
                           !.figY = @ + 2]
           ELSE p3
      ELSE [p3 EXCEPT !.isOnGround = TRUE, !.figY = data.y]

InitBullet ==
  /\ now = 0
  /\ nullAs = Null
  /\ dbPlayers = EmptyMap
  /\ \E S \in {FreshShapes, TwinShapes} :
        /\ dbShapes = S
        /\ nextId = Cardinality(DOMAIN S) + 1
        /\ LET w0 == [sh |-> EmptyMap, lsu |-> NeverUpdated, dbS |-> S,
                      dbG |-> LeftoverGame, nid |-> nextId, dirty |-> {}, log |-> {},
                      thn |-> <<>>, sent |-> FALSE]
           IN  shapes = [c \in Clients |->
                           IF c = BulletClient THEN updateShapes(w0, S, 0).sh
                           ELSE EmptyMap]
  /\ dbGame = LeftoverGame
  /\ joined = {}
  /\ players = [c \in Clients |-> <<>>]
  /\ gameState = [c \in Clients |-> NoGame]
  /\ pend = [c \in Clients |-> [path \in Paths |-> <<>>]]
  /\ thenQ = [c \in Clients |-> <<>>]
  /\ lastShapeUpdate = [c \in Clients |-> NeverUpdated]
  /\ gmLastSpawn = [c \in Clients |-> 0]
  /\ spawnLog = {}
  /\ sentinels = {}
  /\ simLocks = {}
  /\ dups = [c \in Clients |-> {}]
  /\ inputs = 0
  /\ calls = <<>>
  /\ boot = [c \in Clients |-> NotBooted]
  /\ net = NoNet
  /\ cast = NoCast
  /\ disp = NoDisp
  /\ bul = NoBul
  /\ lab = NoLab
  /\ snapP = EmptyMap
  /\ snapS = EmptyMap
  /\ idem = [players |-> <<>>, shapes |-> <<>>]

bulletFrame == <<dbPlayers, joined, players, gameState, gmLastSpawn, nullAs,
                 simLocks, inputs, calls, net, cast, disp, boot, lab, snapP, snapS,
                 idem>>

storeFrame == <<dbShapes, dbGame, nextId, pend, thenQ, lastShapeUpdate, spawnLog,
                sentinels, dups>>

\* nine seconds pass
TickBullet ==
  /\ now < MaxBulletTime
  /\ now' = now + MaxBulletTime
  /\ UNCHANGED <<shapes, bul, storeFrame, bulletFrame>>

\* conn.on("data") with a bullet message of the other client, for the first
\* time or again
PeerBullet(data) ==
  /\ LET r == handlePeerBullet(bul.cache, shapes[BulletClient], data, now)
     IN  /\ bul' = [bul EXCEPT !.cache = r.cache, !.seen = @ \cup {data}]
         /\ shapes' = [shapes EXCEPT ![BulletClient] = r.sh]
  /\ UNCHANGED <<now, storeFrame, bulletFrame>>

\* conn.on("data") with a position message of the other client, for the
\* first time or again
PeerPosition(data) ==
  /\ bul' = [bul EXCEPT !.remote = handlePeerPosition(@, data), !.last = {data}]
  /\ UNCHANGED <<now, shapes, storeFrame, bulletFrame>>

\* the player shoots: handleShoot() up to addBullet(); the ray meets no block
AddBullet(pos) ==
  /\ Cardinality(DOMAIN bul.cache) < MaxBullets
  /\ bul' = [bul EXCEPT !.cache = addBullet(@, BulletClient, pos, now)]
  /\ UNCHANGED <<now, shapes, storeFrame, bulletFrame>>

\* a frame of the game loop: GameManager.update() advances the pieces of the
\* cache; its updateBullets() moves the meshes of GameManager.bullets and
\* tests them against GameManager.shapes, which is always empty;
\* NetworkManager.updateBullets() is called from nowhere
FrameBullet ==
  /\ ~gmShouldSpawn(shapes[BulletClient], gmLastSpawn[BulletClient], now)
  /\ LET w == gmUpdateShapes(World(BulletClient),
                             InOrder(DOMAIN shapes[BulletClient], IdOrder), now)
     IN  Commit(BulletClient, w, {})
  /\ UNCHANGED <<now, bul, bulletFrame>>

NextBullet ==
  \/ TickBullet
  \/ \E data \in BulletMessages : PeerBullet(data)
  \/ \E data \in PositionMessages : PeerPosition(data)
  \/ \E pos \in ShotPositions : AddBullet(pos)
  \/ FrameBullet

SpecBullet == InitBullet /\ [][NextBullet]_vars

-----------------------------------------------------------------------------
(* A piece falling on its own: spawned at the spawn height when the page    *)
(* loads or later, and advanced by Shape.update(currentTime) frame by       *)
(* frame.  now is the frame clock.                                          *)

PieceTypes == {"I", "O", "T", "L", "S"}

\* the frame clock when the piece is spawned: as the page loads, or after a
\* first spawn interval
FallSpawnTimes == {0, 3500}

\* the time from one frame to the next
FrameSteps == {500}

MaxFallTime == 20000

\* the piece on the bench and the frame time of its spawn (history)
Bench(type, x, y, t) == [on |-> TRUE, here |-> NewShape(type, x, y), spawned |-> t]

InitFall ==
  /\ now \in FallSpawnTimes
  /\ nullAs = Null
  /\ dbPlayers = EmptyMap /\ dbShapes = EmptyMap /\ dbGame = NoGame /\ nextId = 1
  /\ joined = {}
  /\ players = [c \in Clients |-> <<>>]
  /\ shapes = [c \in Clients |-> EmptyMap]
  /\ gameState = [c \in Clients |-> NoGame]
  /\ pend = [c \in Clients |-> [path \in Paths |-> <<>>]]
  /\ thenQ = [c \in Clients |-> <<>>]
  /\ lastShapeUpdate = [c \in Clients |-> NeverUpdated]
  /\ gmLastSpawn = [c \in Clients |-> 0]
  /\ spawnLog = {}
  /\ sentinels = {}
  /\ simLocks = {}
  /\ dups = [c \in Clients |-> {}]
  /\ inputs = 0
  /\ calls = <<>>
  /\ boot = [c \in Clients |-> NotBooted]
  /\ net = NoNet
  /\ cast = NoCast
  /\ disp = NoDisp
  /\ bul = NoBul
  /\ \E type \in PieceTypes : lab = Bench(type, 0, SpawnY, now)
  /\ snapP = EmptyMap
  /\ snapS = EmptyMap
  /\ idem = [players |-> <<>>, shapes |-> <<>>]

labFrame == <<dbPlayers, dbShapes, dbGame, nextId, joined, players, shapes, gameState,
              pend, thenQ, lastShapeUpdate, gmLastSpawn, nullAs, spawnLog,
              sentinels, simLocks, dups, inputs, calls, net, cast, disp, boot, bul,
              snapP, snapS, idem>>

\* time passes between two frames
FallTick ==
  /\ now < MaxFallTime
  /\ \E step \in FrameSteps : now' = now + step
  /\ UNCHANGED <<lab, labFrame>>

\* a frame: shape.update(currentTime)
FallFrame ==
  /\ lab' = [lab EXCEPT !.here = ShapeUpdate(@, now)]
  /\ UNCHANGED <<now, labFrame>>

NextFall == FallTick \/ FallFrame

SpecFall == InitFall /\ [][NextFall]_vars

-----------------------------------------------------------------------------
(* A piece turned by the player: a piece a few cells above the ground, in   *)
(* the middle of the grid or at its wall, advanced frame by frame by        *)
(* Shape.update(currentTime) and asked to turn by startRotation(true).      *)

MaxAsks == 4
MaxSpinTime == 2000

\* the column the piece is spawned in: Math.floor(Math.random() * 10) - 5 is
\* the leftmost column, the middle, or the rightmost column drawn (4)
SpinXs == {0 - gridHalf, 0, gridHalf - 2}
\* its height: four cells
SpinYs == {8}
\* the frame clock advances by a gravity interval
SpinSteps == {FallInterval}

\* the offsets of all blocks after one more quarter turn: update() applies
\* applyAxisAngle(rotationAxis, finalRotation) to every initialOffset
TurnedOnce(offs) == [i \in 1..Len(offs) |-> Turned(offs[i], 1)]

\* the piece on the bench; offs is block.userData.initialOffset of every
\* block; asks, accepted and done count the calls of startRotation, those
\* that started a turn and the turns that ran to completion (history)
SpinBench(type, x, y) ==
  [on |-> TRUE, here |-> NewShape(type, x, y), offs |-> getShapeDefinition(type),
   asks |-> 0, accepted |-> 0, done |-> 0]

InitSpin ==
  /\ now = 0
  /\ nullAs = Null
  /\ dbPlayers = EmptyMap /\ dbShapes = EmptyMap /\ dbGame = NoGame /\ nextId = 1
  /\ joined = {}
  /\ players = [c \in Clients |-> <<>>]
  /\ shapes = [c \in Clients |-> EmptyMap]
  /\ gameState = [c \in Clients |-> NoGame]
  /\ pend = [c \in Clients |-> [path \in Paths |-> <<>>]]
  /\ thenQ = [c \in Clients |-> <<>>]
  /\ lastShapeUpdate = [c \in Clients |-> NeverUpdated]
  /\ gmLastSpawn = [c \in Clients |-> 0]
  /\ spawnLog = {}
  /\ sentinels = {}
  /\ simLocks = {}
  /\ dups = [c \in Clients |-> {}]
  /\ inputs = 0
  /\ calls = <<>>
  /\ boot = [c \in Clients |-> NotBooted]
  /\ net = NoNet
  /\ cast = NoCast
  /\ disp = NoDisp
  /\ bul = NoBul
  /\ \E type \in PieceTypes, x \in SpinXs, y \in SpinYs : lab = SpinBench(type, x, y)
  /\ snapP = EmptyMap
  /\ snapS = EmptyMap
  /\ idem = [players |-> <<>>, shapes |-> <<>>]

\* time passes between two frames
SpinTick ==
  /\ \E step \in SpinSteps : now + step <= MaxSpinTime /\ now' = now + step
  /\ UNCHANGED <<lab, labFrame>>

\* a frame: shape.update(currentTime)
SpinFrame ==
  /\ LET next == ShapeUpdate(lab.here, now)
         completed == next.rot # lab.here.rot
     IN  lab' = [lab EXCEPT !.here = next,
                            !.offs = IF completed THEN TurnedOnce(@) ELSE @,
                            !.done = IF completed THEN @ + 1 ELSE @]
  /\ UNCHANGED <<now, labFrame>>

\* handleShoot() / rotateShapeInView() with the camera on a block of the
\* piece, or a bullet of a peer that hits it: startRotation(true)
SpinAsk ==
  /\ lab.asks < MaxAsks
  /\ lab.here.isActive /\ ~lab.here.isLocked
  /\ LET next == startRotation(lab.here)
     IN  lab' = [lab EXCEPT !.here = next,
                            !.asks = @ + 1,
                            !.accepted = IF next.isRotating /\ ~lab.here.isRotating
                                         THEN @ + 1 ELSE @]
  /\ UNCHANGED <<now, labFrame>>

\* the world of a page that holds the piece of the bench and no store record
SpinWorld ==
  [sh |-> [id \in {"s1"} |-> lab.here], lsu |-> NeverUpdated, dbS |-> EmptyMap,
   dbG |-> NoGame, nid |-> 1, dirty |-> {}, log |-> {}, thn |-> <<>>, sent |-> FALSE]

\* the directions of a shift: one cell to the left or to the right
ShiftDirs == {0 - 2, 2}

\* moveShapeInView("left" | "right") with the camera on a block of the piece
SpinShift ==
  /\ lab.here.isActive /\ ~lab.here.isLocked
  /\ \E dx \in ShiftDirs :
        lab' = [lab EXCEPT !.here = moveShapeInView(SpinWorld, "s1", dx, now).sh["s1"]]
  /\ UNCHANGED <<now, labFrame>>

\* shape.moveSideways(direction)
SpinSideways ==
  /\ \E dx \in ShiftDirs : lab' = [lab EXCEPT !.here = moveSideways(@, dx)]
  /\ UNCHANGED <<now, labFrame>>

NextSpin == SpinTick \/ SpinFrame \/ SpinAsk \/ SpinShift \/ SpinSideways

SpecSpin == InitSpin /\ [][NextSpin]_vars

-----------------------------------------------------------------------------
(* A piece turned while two clients hold it: both clients have taken the    *)
(* piece in from the store, a few cells above the ground; each advances    *)
(* its own copy frame by frame and writes its position, a player turns or  *)
(* shifts the piece, and the store notifies both clients of every write.   *)

\* the piece that falls, and the one that lies on the ground beside it
TurnId == "s2"
RestId == "s1"
MaxTurnAsks == 1
MaxShifts == 1
MaxTurnTime == 1000
TurnTypes == {"T"}
\* the height of the falling piece: one cell
TurnYs == {2}

\* the record of a piece in the store: addShape() writes it unlocked, and a
\* piece that locks on the ground is not written again
TurnRecord(type, x, y) ==
  [LeftoverShapes["s1"] EXCEPT !.type = type, !.x = x, !.y = y]

\* a square that fell to the ground two columns to the right and locked there
RestingShape ==
  [NewShape("O", 4, 2) EXCEPT !.isLocked = TRUE, !.isActive = FALSE]

\* the store and the caches of both clients, with the snapshots of shapes/
\* waiting at each client; asks and shifts count the inputs of the players
\* and accepted the calls of startRotation that started a turn (history)
TurnBench(type, y) ==
  [on |-> TRUE,
   dbS |-> [id \in {RestId, TurnId} |->
              IF id = RestId THEN TurnRecord("O", 4, 2) ELSE TurnRecord(type, 0, y)],
   sh |-> [c \in Clients |->
             [id \in {RestId, TurnId} |->
                IF id = RestId THEN RestingShape ELSE NewShape(type, 0, y)]],
   lsu |-> [c \in Clients |-> NeverUpdated],
   pend |-> [c \in Clients |-> <<>>],
   asks |-> 0, shifts |-> 0, accepted |-> 0]

InitTurn ==
  /\ now = 0
  /\ nullAs = Null
  /\ dbPlayers = EmptyMap /\ dbShapes = EmptyMap /\ dbGame = NoGame /\ nextId = 1
  /\ joined = {}
  /\ players = [c \in Clients |-> <<>>]
  /\ shapes = [c \in Clients |-> EmptyMap]
  /\ gameState = [c \in Clients |-> NoGame]
  /\ pend = [c \in Clients |-> [path \in Paths |-> <<>>]]
  /\ thenQ = [c \in Clients |-> <<>>]
  /\ lastShapeUpdate = [c \in Clients |-> NeverUpdated]
  /\ gmLastSpawn = [c \in Clients |-> 0]
  /\ spawnLog = {}
  /\ sentinels = {}
  /\ simLocks = {}
  /\ dups = [c \in Clients |-> {}]
  /\ inputs = 0
  /\ calls = <<>>
  /\ boot = [c \in Clients |-> NotBooted]
  /\ net = NoNet
  /\ cast = NoCast
  /\ disp = NoDisp
  /\ bul = NoBul
  /\ \E type \in TurnTypes, y \in TurnYs : lab = TurnBench(type, y)
  /\ snapP = EmptyMap
  /\ snapS = EmptyMap
  /\ idem = [players |-> <<>>, shapes |-> <<>>]

\* the world a handler of client c works on
TurnWorld(c) ==
  [sh |-> lab.sh[c], lsu |-> lab.lsu[c], dbS |-> lab.dbS,
   dbG |-> LeftoverGame, nid |-> MaxShapes + 1, dirty |-> {}, log |-> {},
   thn |-> <<>>, sent |-> FALSE]

\* what a handler of client c leaves behind: its cache and stamp, the store,
\* and the new value of shapes/ sent to both clients
TurnCommit(c, w, consumed, asked, shifted, started) ==
  lab' = [lab EXCEPT
            !.sh[c] = w.sh,
            !.lsu[c] = w.lsu,
            !.dbS = w.dbS,
            !.pend = [d \in Clients |->
                        LET q == IF d = c /\ consumed THEN Tail(lab.pend[d])
                                 ELSE lab.pend[d]
                        IN  IF "shapes" \in w.dirty THEN Enqueue(q, w.dbS) ELSE q],
            !.asks = IF asked THEN @ + 1 ELSE @,
            !.shifts = IF shifted THEN @ + 1 ELSE @,
            !.accepted = IF started THEN @ + 1 ELSE @]

\* time passes; a notification is in flight for less than a clock step
TurnTick ==
  /\ \A c \in Clients : lab.pend[c] = <<>>
  /\ \E d \in ClockSteps : now + d <= MaxTurnTime /\ now' = now + d
  /\ UNCHANGED <<lab, labFrame>>

\* GameManager.update(currentTime): updateShapes(currentTime)
TurnFrame(c) ==
  /\ TurnCommit(c, gmUpdateShapes(TurnWorld(c), InOrder(DOMAIN lab.sh[c], IdOrder), now),
                FALSE, FALSE, FALSE, FALSE)
  /\ UNCHANGED <<now, labFrame>>

\* handleShoot() / rotateShapeInView() with the camera on a block of the
\* piece: startRotation(true), then the rotation patch
TurnShoot(c) ==
  /\ lab.asks < MaxTurnAsks
  /\ TurnId \in ActiveUnlocked(lab.sh[c])
  /\ LET w1 == [TurnWorld(c) EXCEPT !.sh[TurnId] = startRotation(@)]
         started == w1.sh[TurnId].isRotating /\ ~lab.sh[c][TurnId].isRotating
     IN  TurnCommit(c, updateShapeStateRotating(w1, TurnId, now), FALSE, TRUE, FALSE, started)
  /\ UNCHANGED <<now, labFrame>>

\* handlePeerBullet() with the bullet of a peer inside a block of the piece:
\* startRotation(true), and nothing written to the store
TurnHit(c) ==
  /\ lab.asks < MaxTurnAsks
  /\ TurnId \in ActiveUnlocked(lab.sh[c])
  /\ LET w1 == [TurnWorld(c) EXCEPT !.sh[TurnId] = startRotation(@)]
         started == w1.sh[TurnId].isRotating /\ ~lab.sh[c][TurnId].isRotating
     IN  TurnCommit(c, w1, FALSE, TRUE, FALSE, started)
  /\ UNCHANGED <<now, labFrame>>

\* moveShapeInView(direction) with the camera on a block of the piece
TurnShift(c) ==
  /\ lab.shifts < MaxShifts
  /\ TurnId \in ActiveUnlocked(lab.sh[c])
  /\ \E dx \in {0 - 2, 2} :
        TurnCommit(c, moveShapeInView(TurnWorld(c), TurnId, dx, now),
                   FALSE, FALSE, TRUE, FALSE)
  /\ UNCHANGED <<now, labFrame>>

\* onValue(shapesRef): updateShapes(shapes)
TurnNotify(c) ==
  /\ lab.pend[c] # <<>>
  /\ TurnCommit(c, updateShapes(TurnWorld(c), Head(lab.pend[c]), now),
                TRUE, FALSE, FALSE, FALSE)
  /\ UNCHANGED <<now, labFrame>>

NextTurn ==
  \/ TurnTick
  \/ \E c \in Clients : TurnFrame(c)
  \/ \E c \in Clients : TurnShoot(c)
  \/ \E c \in Clients : TurnHit(c)
  \/ \E c \in Clients : TurnShift(c)
  \/ \E c \in Clients : TurnNotify(c)

SpecTurn == InitTurn /\ [][NextTurn]_vars

-----------------------------------------------------------------------------
(* A completed row: a page that holds two pieces, each falling, locked by   *)
(* its own fall or locked by a notification of the store, is told that a    *)
(* row is complete.  A piece is kept here with its block meshes: the offset *)
(* (userData.initialOffset) and the position of each.                       *)

MaxRowCalls == 2
\* the rows that complete
Rows == {1, 2, 3}

\* Math.round(v) of a coordinate of v half cells
Round(v) == (v + 1) \div 2

\* shape.blocks of a piece that has all its blocks
BlocksOf(sh) ==
  LET d == Offsets(sh.type, sh.rot)
  IN  [i \in 1..Len(d) |-> [off |-> d[i], pos |-> <<sh.bx + d[i][1], sh.by + d[i][2]>>]]

\* the world of a page that holds piece sh as s1, with its record in the store
RowWorld(sh) ==
  [sh |-> [id \in {"s1"} |-> sh], lsu |-> NeverUpdated,
   dbS |-> [id \in {"s1"} |-> TurnRecord(sh.type, sh.x, sh.y)],
   dbG |-> LeftoverGame, nid |-> 2, dirty |-> {}, log |-> {}, thn |-> <<>>,
   sent |-> FALSE]

\* a piece in column x: falling two cells up, locked on the ground by its
\* own gravity step, or locked one cell lower by a notification of the store
RowPieces(type, x) ==
  LET falling == NewShape(type, x, 6)
      low == [NewShape(type, x, 2) EXCEPT !.lastFallTime = FallInterval]
      lockedRecord == [TurnRecord(type, x, 2) EXCEPT !.isLocked = TRUE,
                                                     !.isActive = FALSE]
  IN  {falling,
       ShapeUpdate(low, 2 * FallInterval),
       ReconcileShape(RowWorld(NewShape(type, x, 4)), "s1", lockedRecord, 0).sh["s1"]}

\* the pieces of the page, the rows completed so far, the cache before the
\* last call and the block lists it wrote to the store (history)
RowBench(p1, p2) ==
  LET cache == [id \in {"s1", "s2"} |->
                  IF id = "s1" THEN [sh |-> p1, blocks |-> BlocksOf(p1)]
                  ELSE [sh |-> p2, blocks |-> BlocksOf(p2)]]
  IN  [on |-> TRUE, cache |-> cache, before |-> cache, rows |-> <<>>,
       published |-> EmptyMap]

\* the block is in row y: Math.round(block.position.y) === y
AtRow(b, y) == Round(b.pos[2]) = y

\* the loop body of handleRowCompletion(y) for one piece that is not in
\* mid-turn: splice the blocks of the row, updateBlockPositions()
truncate(piece, y) ==
  LET kept == SelectSeq(piece.blocks, LAMBDA b : ~AtRow(b, y))
      sh == updateBlockPositions(piece.sh)
  IN  IF ~piece.sh.isLocked \/ Len(kept) = Len(piece.blocks) THEN piece
      ELSE [sh |-> sh,
            blocks |-> [i \in 1..Len(kept) |->
                          [kept[i] EXCEPT !.pos = <<sh.x + kept[i].off[1],
                                                    sh.y + kept[i].off[2]>>]]]

\* handleRowCompletion(y): the pieces afterwards, and the block lists
\* written to shapes/{id}
handleRowCompletion(cache, y) ==
  LET next == [id \in DOMAIN cache |-> truncate(cache[id], y)]
      shapesToUpdate == {id \in DOMAIN cache :
                            Len(next[id].blocks) # Len(cache[id].blocks)}
  IN  [cache |-> next,
       published |-> [id \in shapesToUpdate |->
                        [i \in 1..Len(next[id].blocks) |-> next[id].blocks[i].pos]]]

\* every variable but the clock and the bench, as in a page that has not started
BenchFrameInit ==
  /\ nullAs = Null
  /\ dbPlayers = EmptyMap /\ dbShapes = EmptyMap /\ dbGame = NoGame /\ nextId = 1
  /\ joined = {}
  /\ players = [c \in Clients |-> <<>>]
  /\ shapes = [c \in Clients |-> EmptyMap]
  /\ gameState = [c \in Clients |-> NoGame]
  /\ pend = [c \in Clients |-> [path \in Paths |-> <<>>]]
  /\ thenQ = [c \in Clients |-> <<>>]
  /\ lastShapeUpdate = [c \in Clients |-> NeverUpdated]
  /\ gmLastSpawn = [c \in Clients |-> 0]
  /\ spawnLog = {}
  /\ sentinels = {}
  /\ simLocks = {}
  /\ dups = [c \in Clients |-> {}]
  /\ inputs = 0
  /\ calls = <<>>
  /\ boot = [c \in Clients |-> NotBooted]
  /\ net = NoNet
  /\ cast = NoCast
  /\ disp = NoDisp
  /\ bul = NoBul
  /\ snapP = EmptyMap
  /\ snapS = EmptyMap
  /\ idem = [players |-> <<>>, shapes |-> <<>>]

InitRow ==
  /\ now = 0
  /\ BenchFrameInit
  /\ \E t1 \in PieceTypes, t2 \in {"O", "T"} :
       \E p1 \in RowPieces(t1, 0), p2 \in RowPieces(t2, 4) : lab = RowBench(p1, p2)

\* handleRowCompletion(y)
RowCompletion ==
  /\ Len(lab.rows) < MaxRowCalls
  /\ \E y \in Rows :
        LET done == handleRowCompletion(lab.cache, y)
        IN  lab' = [lab EXCEPT !.cache = done.cache, !.before = lab.cache,
                               !.rows = Append(@, y), !.published = done.published]
  /\ UNCHANGED <<now, labFrame>>

NextRow == RowCompletion

SpecRow == InitRow /\ [][NextRow]_vars

-----------------------------------------------------------------------------
(* The score of one player: addPoints reads scores/{playerId} and, when the *)
(* read has come back, writes the record with the score it read plus the    *)
(* points.  The requests of one page reach the store in the order sent.     *)

MaxScoreCalls == 5
RowPoints == 10
\* the score the record holds when the page starts
StartScores == {0, RowPoints}

\* the steps of one call: the read is under way, the write is under way, the
\* write is in the store
ScoreBench(score) ==
  [on |-> TRUE, start |-> score, score |-> score, ops |-> <<>>]

InitScore ==
  /\ now = 0
  /\ BenchFrameInit
  /\ \E score \in StartScores : lab = ScoreBench(score)

\* the first call at the given step, or 0
FirstAt(ops, step) ==
  IF \E i \in 1..Len(ops) : ops[i].step = step
  THEN CHOOSE i \in 1..Len(ops) :
         /\ ops[i].step = step
         /\ \A j \in 1..(i - 1) : ops[j].step # step
  ELSE 0

\* what the write of a call stores: the score it read plus the points
scoreToSet(currentScore, points) == currentScore + points

\* addPoints(points) up to its first await: get(scoreRef) is sent
AddPoints ==
  /\ Len(lab.ops) < MaxScoreCalls
  /\ lab' = [lab EXCEPT !.ops = Append(@, [step |-> "get", currentScore |-> 0])]
  /\ UNCHANGED <<now, labFrame>>

\* the store answers the oldest read; the call goes on to send set(scoreRef, ...)
ScoreRead ==
  /\ FirstAt(lab.ops, "get") # 0
  /\ LET i == FirstAt(lab.ops, "get")
     IN  lab' = [lab EXCEPT !.ops[i] = [step |-> "set", currentScore |-> lab.score]]
  /\ UNCHANGED <<now, labFrame>>

\* the oldest write reaches the store
ScoreWrite ==
  /\ FirstAt(lab.ops, "set") # 0
  /\ LET i == FirstAt(lab.ops, "set")
     IN  lab' = [lab EXCEPT !.score = scoreToSet(lab.ops[i].currentScore, RowPoints),
                            !.ops[i].step = "done"]
  /\ UNCHANGED <<now, labFrame>>

NextScore == AddPoints \/ ScoreRead \/ ScoreWrite

SpecScore == InitScore /\ [][NextScore]_vars

-----------------------------------------------------------------------------
(* The record of one player p in the store, and another page c that dials   *)
(* p: c writes players/{p} when its connection to p opens and when it       *)
(* closes.  Neither page signs in.  lastSeen is the number of the write.    *)

MaxAttempts == 8

\* no record at players/{id}
NoPlayer == [exists |-> FALSE]

PlayerChildren == {"nickname", "lastUpdate", "peerId", "online"}

\* a store without rules
PlayersSetUnruled(data, newData) == newData

\* the rules of players/{id} for a write by a page that has not signed in:
\* .write lets it through when no record exists, .validate when the new
\* record has the four children; the record in the store afterwards
PlayersSet(data, newData) ==
  IF data = NoPlayer /\ PlayerChildren \subseteq DOMAIN newData THEN newData ELSE data

\* the record set(this.playerRef, ...) of initialize() writes
OwnRecord(id, stamp) ==
  [nickname |-> "nick", lastUpdate |-> stamp, peerId |-> id, online |-> TRUE,
   lastSeen |-> stamp]

\* the record the "open" handler of connectToOnlinePeers writes
OpenRecord(data, stamp) == [data EXCEPT !.online = TRUE, !.lastSeen = stamp]

\* the record the "close" handler of handlePeerConnection writes
CloseRecord(stamp) == [online |-> FALSE, lastSeen |-> stamp]

\* db: players/{p}; hook: p's onDisconnect update; data: the record of p in
\* the listing c handled last; dialData: the one its dial holds; link: the
\* connection of c to p; last: the last write c tried (history)
RecordBench ==
  [on |-> TRUE, db |-> NoPlayer, hook |-> "none", data |-> NoPlayer,
   dialData |-> NoPlayer, link |-> "none", n |-> 0,
   last |-> [record |-> NoPlayer, accepted |-> FALSE]]

InitRecord ==
  /\ now = 0
  /\ BenchFrameInit
  /\ lab = RecordBench

\* initialize() of p: the record is created and the hook is registered
RecordJoin ==
  /\ lab.db = NoPlayer
  /\ lab' = [lab EXCEPT !.db = PlayersSet(lab.db, OwnRecord("p", 0)), !.hook = "armed"]
  /\ UNCHANGED <<now, labFrame>>

\* p loses its connection to the store: the server runs the update of the
\* hook, {online: false, lastSeen}, which is applied or refused
RecordHook ==
  /\ lab.hook = "armed" /\ lab.n < MaxAttempts
  /\ \E applied \in BOOLEAN :
       lab' = [lab EXCEPT !.hook = IF applied THEN "applied" ELSE "refused",
                          !.n = @ + 1,
                          !.db = IF applied
                                 THEN [@ EXCEPT !.online = FALSE, !.lastSeen = lab.n + 1]
                                 ELSE @]
  /\ UNCHANGED <<now, labFrame>>

\* c handles a notification of players: the listing it dials from
RecordListing ==
  /\ lab.data # lab.db
  /\ lab' = [lab EXCEPT !.data = lab.db]
  /\ UNCHANGED <<now, labFrame>>

\* connectToOnlinePeers(players) of c: p is dialed when it is listed online
\* and c has no open connection to it
RecordDial ==
  /\ lab.data # NoPlayer /\ lab.data.online
  /\ lab.link = "none"
  /\ lab' = [lab EXCEPT !.link = "dialing", !.dialData = lab.data]
  /\ UNCHANGED <<now, labFrame>>

\* the "open" handler of the dialed connection: set(players/{p}, {...data,
\* online: true, lastSeen})
RecordOpen ==
  /\ lab.link = "dialing" /\ lab.n < MaxAttempts
  /\ LET newData == OpenRecord(lab.dialData, lab.n + 1)
         after == PlayersSet(lab.db, newData)
     IN  lab' = [lab EXCEPT !.link = "open", !.n = @ + 1, !.db = after,
                            !.last = [record |-> newData, accepted |-> after = newData]]
  /\ UNCHANGED <<now, labFrame>>

\* the "close" handler: set(players/{p}, {online: false, lastSeen})
RecordClose ==
  /\ lab.link = "open" /\ lab.n < MaxAttempts
  /\ LET newData == CloseRecord(lab.n + 1)
         after == PlayersSet(lab.db, newData)
     IN  lab' = [lab EXCEPT !.link = "none", !.n = @ + 1, !.db = after,
                            !.last = [record |-> newData, accepted |-> after = newData]]
  /\ UNCHANGED <<now, labFrame>>

NextRecord ==
  \/ RecordJoin \/ RecordHook \/ RecordListing \/ RecordDial \/ RecordOpen
  \/ RecordClose

SpecRecord == InitRecord /\ [][NextRecord]_vars

-----------------------------------------------------------------------------
(* Reconciliation of one piece: a page holds the falling piece s1 and is    *)
(* handed records of shapes/s1, as the shifts and gravity steps of another  *)
(* page leave them in the store.                                            *)

MaxNotes == 2
NoteXs == {0 - 2, 0, 2}
NoteYs == {2, 4, 6}

\* the records of shapes/s1 that may arrive
NoteRecords(type) ==
  {[TurnRecord(type, x, y) EXCEPT !.isLocked = l, !.isActive = ~l] :
      x \in NoteXs, y \in NoteYs, l \in BOOLEAN}

\* sh: the piece in the cache; data: the record handed last; notes: how
\* many; game: the gameState record of the store, which names s1 or, after a
\* second spawn while s1 was falling, the piece s2 that is falling too
NoteBench(sh, named) ==
  [on |-> TRUE, sh |-> sh, data |-> TurnRecord(sh.type, sh.x, sh.y), notes |-> 0,
   game |-> [LeftoverGame EXCEPT !.currentShapeId = named]]

InitNote ==
  /\ now = 0
  /\ BenchFrameInit
  /\ \E type \in {"T", "I"}, x \in NoteXs, y \in NoteYs \ {2}, named \in {"s1", "s2"} :
       lab = NoteBench(NewShape(type, x, y), named)

\* the world of the page: s1 in its cache, gameState as the store holds it
NoteWorld == [RowWorld(lab.sh) EXCEPT !.dbG = lab.game]

\* updateShapes(shapes) with a record of s1
Note ==
  /\ lab.notes < MaxNotes
  /\ \E data \in NoteRecords(lab.sh.type) :
       LET w == ReconcileShape(NoteWorld, "s1", data, now)
       IN  lab' = [lab EXCEPT !.sh = w.sh["s1"], !.game = w.dbG,
                              !.data = data, !.notes = @ + 1]
  /\ UNCHANGED <<now, labFrame>>

NextNote == Note

SpecNote == InitNote /\ [][NextNote]_vars

-----------------------------------------------------------------------------
(* The patch of updateShapeState: the partial states its callers pass, for  *)
(* an active piece and with the throttle interval elapsed.  A value of the  *)
(* patch is Val(v), a JavaScript null or undefined.                         *)

Val(v) == [val |-> v]
NullValue == [null |-> TRUE]
Undefined == [undefined |-> TRUE]

PatchXs == {0 - 4, 0 - 2, 0, 2, 4}
PatchYs == {2, 4, 6, 8, 10}

\* the states GameManager passes: {position}, {position, isLocked: true,
\* isActive: false} and {isRotating: true, currentRotation}
PatchStates ==
  {[position |-> [x |-> x, y |-> y, z |-> 0]] : x \in PatchXs, y \in PatchYs}
  \cup {[position |-> [x |-> x, y |-> y, z |-> 0], isLocked |-> TRUE,
         isActive |-> FALSE] : x \in PatchXs, y \in PatchYs}
  \cup {[isRotating |-> TRUE, currentRotation |-> k] : k \in 0..RotationSteps}

\* state[f], undefined when the caller did not pass f
Field(state, f) == IF f \in DOMAIN state THEN Val(state[f]) ELSE Undefined

\* validateNumber(value): Number(undefined) is NaN, which becomes null; the
\* numbers the callers pass are finite
validateNumber(value) == IF value = Undefined THEN NullValue ELSE value

\* const safeState = {...}
safeState(state, t) ==
  [position |-> IF "position" \in DOMAIN state
                THEN Val([x |-> validateNumber(Val(state.position.x)),
                          y |-> validateNumber(Val(state.position.y)),
                          z |-> validateNumber(Val(state.position.z))])
                ELSE Undefined,
   isLocked |-> Field(state, "isLocked"),
   isActive |-> Field(state, "isActive"),
   isRotating |-> Field(state, "isRotating"),
   currentRotation |-> validateNumber(Field(state, "currentRotation")),
   lastUpdate |-> Val(t)]

\* Object.fromEntries(Object.entries(safeState).filter(([_, v]) => v !== undefined))
cleanState(state, t) ==
  LET safe == safeState(state, t)
  IN  [f \in {g \in DOMAIN safe : safe[g] # Undefined} |-> safe[f]]

\* state: what the caller passes; patch: what update(shapeRef, ...) is given
PatchBench(state) == [on |-> TRUE, state |-> state, written |-> FALSE, patch |-> <<>>]

InitPatch ==
  /\ now = shapeUpdateInterval
  /\ BenchFrameInit
  /\ \E state \in PatchStates : lab = PatchBench(state)

\* updateShapeState(shapeId, state)
Patch ==
  /\ ~lab.written
  /\ lab' = [lab EXCEPT !.written = TRUE, !.patch = cleanState(lab.state, now)]
  /\ UNCHANGED <<now, labFrame>>

NextPatch == Patch

SpecPatch == InitPatch /\ [][NextPatch]_vars

-----------------------------------------------------------------------------
(* Reconciliation applied twice: a client whose caches are empty is handed   *)
(* the same snapshot two times in a row.                                    *)

IdemClient == "c1"

\* players/{id} records: online, offline a moment ago, offline and stale
PlayerRecords ==
  {[online |-> TRUE, lastSeen |-> 0], [online |-> FALSE, lastSeen |-> 0],
   [online |-> FALSE, lastSeen |-> 0 - (StaleAfter + 1000)]}

PlayerSnapshots ==
  UNION {[S -> PlayerRecords] : S \in SUBSET SeqToSet(PlayerKeyOrder)}

\* shapes/{id} records as addShape and the lock patch write them
PieceRecords ==
  {[type |-> "I", x |-> x, y |-> y, isLocked |-> l, isActive |-> ~l,
    isRotating |-> FALSE, hasRotation |-> FALSE, currentRotation |-> 0,
    createdBy |-> "p0"] : x \in {0, 2}, y \in {2, SpawnY}, l \in BOOLEAN}

ShapeSnapshots == UNION {[S -> PieceRecords] : S \in SUBSET {"s1", "s2"}}

InitIdem ==
  /\ now = 0
  /\ nullAs = Null
  /\ snapP \in PlayerSnapshots
  /\ snapS \in ShapeSnapshots
  /\ dbPlayers = snapP
  /\ dbShapes = snapS
  /\ dbGame = ResetGame
  /\ nextId = 3
  /\ joined = {}
  /\ players = [c \in Clients |-> <<>>]
  /\ shapes = [c \in Clients |-> EmptyMap]
  /\ gameState = [c \in Clients |-> NoGame]
  /\ pend = [c \in Clients |-> [path \in Paths |-> <<>>]]
  /\ thenQ = [c \in Clients |-> <<>>]
  /\ lastShapeUpdate = [c \in Clients |-> NeverUpdated]
  /\ gmLastSpawn = [c \in Clients |-> 0]
  /\ spawnLog = {}
  /\ sentinels = {}
  /\ simLocks = {}
  /\ dups = [c \in Clients |-> {}]
  /\ inputs = 0
  /\ calls = <<>>
  /\ boot = [c \in Clients |-> NotBooted]
  /\ net = NoNet
  /\ cast = NoCast
  /\ disp = NoDisp
  /\ bul = NoBul
  /\ lab = NoLab
  /\ idem = [players |-> <<>>, shapes |-> <<>>]

\* updatePlayers(snapP), for the first or the second time
ApplyPlayers ==
  /\ Len(idem.players) < 2
  /\ LET r == updatePlayers(players[IdemClient], snapP, IdemClient, now)
     IN  /\ players' = [players EXCEPT ![IdemClient] = r.cache]
         /\ idem' = [idem EXCEPT !.players =
                        Append(@, [created |-> r.created, disposed |-> r.disposed,
                                   writes |-> r.deletes])]
  /\ UNCHANGED <<now, dbPlayers, dbShapes, dbGame, nextId, joined, shapes, gameState,
                 pend, thenQ, lastShapeUpdate, gmLastSpawn, nullAs, spawnLog,
                 sentinels, simLocks, dups, inputs, calls, net, cast, disp, boot, bul, lab, snapP, snapS>>

\* updateShapes(snapS), for the first or the second time
ApplyShapes ==
  /\ Len(idem.shapes) < 2
  /\ LET w == updateShapes(World(IdemClient), snapS, now)
     IN  /\ Commit(IdemClient, w, {})
         /\ idem' = [idem EXCEPT !.shapes =
                        Append(@, [created |-> DOMAIN w.sh \ DOMAIN shapes[IdemClient],
                                   disposed |-> DOMAIN shapes[IdemClient] \ DOMAIN w.sh,
                                   writes |-> w.dirty])]
  /\ UNCHANGED <<now, dbPlayers, joined, players, gameState, gmLastSpawn, nullAs,
                 simLocks, inputs, calls, net, cast, disp, boot, bul, lab, snapP, snapS>>

NextIdem == ApplyPlayers \/ ApplyShapes

SpecIdem == InitIdem /\ [][NextIdem]_vars

-----------------------------------------------------------------------------
(* Claims *)

\* C1: at every moment at most one piece is active and not locked, in the
\* store and in the cache of every client.
C1_SingleActivePiece ==
  /\ Cardinality(ActiveUnlocked(dbShapes)) <= 1
  /\ \A c \in Clients : Cardinality(ActiveUnlocked(shapes[c])) <= 1

\* C2: locking is terminal: a piece that is locked in a client's cache is,
\* after any step that keeps it there, still locked and not active.
C2_LockIsTerminal ==
  [][\A c \in Clients : \A id \in ShapeIds :
        (id \in DOMAIN shapes[c] /\ shapes[c][id].isLocked /\ id \in DOMAIN shapes'[c])
        => (shapes'[c][id].isLocked /\ ~shapes'[c][id].isActive)]_vars

\* C3: no lock is lost: a lock made by a client's simulation has reached the
\* store (isLocked = true, isActive = false in the piece's record, while the
\* record exists) by the time the clock next advances, which it does only
\* when no message is in flight.
C3_NoLockLost ==
  [][now' # now =>
        \A e \in simLocks :
           e[2] \in DOMAIN dbShapes
           => (dbShapes[e[2]].isLocked /\ ~dbShapes[e[2]].isActive)]_vars

C5_SpawnOnlyWhenAllowed ==
  [][\A c \in Clients :
        Len(thenQ'[c]) > Len(thenQ[c])
        => /\ ActiveUnlocked(shapes'[c]) = {}
           /\ gameState'[c].currentShapeId \notin SeqToSet(IdOrder) \cup {Spawning}
           /\ now - gameState'[c].lastSpawnTime > SpawnCooldown]_vars

\* the claim's case: an arbitration has started a spawn
C5_SpawnStarted == \E c \in Clients : thenQ[c] # <<>>

\* the client the players listing elects: its first online player
Elected ==
  LET online == InOrder({p \in DOMAIN dbPlayers : dbPlayers[p].online}, PlayerKeyOrder)
  IN  IF online = <<>> THEN Null ELSE Head(online)

\* a spawn is due and client c is the one to make it: no piece is falling
\* anywhere, no spawn is under way, c has reconciled the players listing, and
\* the game state it is about to handle is the store's, with currentShapeId
\* unset and the cooldown elapsed
SpawnDue(c) ==
  /\ c \in joined /\ c = Elected
  /\ pend[c]["players"] = <<>>
  /\ pend[c]["gameState"] # <<>>
  /\ Head(pend[c]["gameState"]) = dbGame
  /\ dbGame.has
  /\ dbGame.currentShapeId \in {Null, Undef}
  /\ now - dbGame.lastSpawnTime > SpawnCooldown
  /\ ActiveUnlocked(dbShapes) = {}
  /\ \A d \in Clients : ActiveUnlocked(shapes[d]) = {} /\ thenQ[d] = <<>>

\* C6: when a spawn is due, the game-state notification the elected client
\* handles next makes it start a spawn.
C6_NotificationSpawns ==
  [][\A c \in Clients :
        (SpawnDue(c) /\ DeliverGameState(c)) => Len(thenQ'[c]) > Len(thenQ[c])]_vars

\* C7: when every client has reconciled the players listing, exactly one of
\* them passes the first-in-list test of the arbitration.
C7_OneLeader ==
  (joined # {} /\ \A c \in joined : pend[c]["players"] = <<>>)
  => Cardinality({c \in joined : isFirstPlayer(c, players[c])}) = 1

\* C8: every piece record was created by a client that had written the
\* sentinel before.
C8_SentinelBeforePiece == \A e \in spawnLog : e.afterSentinel

\* C9: after a duplicate spawn (two pieces active and unlocked in a client's
\* cache) of which one piece has locked, the sweep of handleGameStateUpdate
\* removes the other from the cache and from the store.
C9_SweepRemovesLoser ==
  [][\A c \in Clients : \A win \in ShapeIds : \A lose \in ShapeIds :
        ( /\ DeliverGameState(c)
          /\ {win, lose} \in dups[c]
          /\ win \in DOMAIN shapes[c] /\ shapes[c][win].isLocked
          /\ lose \in ActiveUnlocked(shapes[c]) )
        => (lose \notin DOMAIN shapes'[c] /\ lose \notin DOMAIN dbShapes')]_vars

\* C10: the second of two applications of updatePlayers (updateShapes) to
\* the same snapshot creates nothing, disposes nothing and writes nothing.
C10_SecondApplicationIdle ==
  /\ Len(idem.players) = 2
     => idem.players[2] = [created |-> <<>>, disposed |-> <<>>, writes |-> <<>>]
  /\ Len(idem.shapes) = 2
     => idem.shapes[2] = [created |-> {}, disposed |-> {}, writes |-> {}]

C12_NoStalePlayerCached ==
  Len(idem.players) >= 1
  => \A id \in SeqToSet(players[IdemClient]) :
        /\ id \in DOMAIN snapP
        /\ ~(~snapP[id].online /\ now - snapP[id].lastSeen > StaleAfter)

\* C13: updatePlayers issues the delete of a players/{id} record only for
\* another player whose record in the snapshot is offline with lastSeen more
\* than 5000 ms old; no record the snapshot shows online is deleted.
C13_DeleteOnlyStale ==
  \A i \in 1..Len(idem.players) : \A id \in SeqToSet(idem.players[i].writes) :
     /\ id # IdemClient
     /\ id \in DOMAIN snapP
     /\ ~snapP[id].online
     /\ now - snapP[id].lastSeen > StaleAfter

\* the claim's case: the sweep has issued a delete
C13_DeleteIssued ==
  \E i \in 1..Len(idem.players) : idem.players[i].writes # <<>>

\* every client has taken in everything the store sent, no turn is under
\* way, and every client holds piece id at the position the store has
Settled(id) ==
  /\ Quiet
  /\ joined = Clients
  /\ \A c \in Clients :
        /\ id \in DOMAIN shapes[c]
        /\ ~shapes[c][id].isRotating
        /\ shapes[c][id].x = dbShapes[id].x
        /\ shapes[c][id].y = dbShapes[id].y

\* C14: after a player has turned or shifted a piece and every notification
\* of the store has been handled, all clients hold the piece with the same
\* base position, the same block offsets and the same flags.
C14_PieceConverges ==
  \A id \in DOMAIN dbShapes :
     (inputs > 0 /\ Settled(id))
     => \A c, d \in Clients :
           /\ shapes[c][id].x = shapes[d][id].x
           /\ shapes[c][id].y = shapes[d][id].y
           /\ Offsets(shapes[c][id].type, shapes[c][id].rot)
                = Offsets(shapes[d][id].type, shapes[d][id].rot)
           /\ shapes[c][id].isLocked = shapes[d][id].isLocked
           /\ shapes[c][id].isActive = shapes[d][id].isActive

\* C15: a call of updateShapeState writes to the store only when at least
\* 200 ms have passed since the client's previous write by updateShapeState
\* and the piece is active or the patch locks it; a call that fails either
\* condition writes nothing and changes no local state; so two writes of one
\* client are at least 200 ms apart.
C15_ThrottledWrites ==
  /\ \A i \in 1..Len(calls) :
        LET allowed == /\ calls[i].since >= shapeUpdateInterval
                       /\ (calls[i].active \/ calls[i].lock)
        IN  /\ calls[i].wrote => allowed
            /\ ~allowed => (~calls[i].wrote /\ ~calls[i].touched)
  /\ \A i, j \in 1..Len(calls) :
        (i < j /\ calls[i].wrote /\ calls[j].wrote)
        => calls[j].t - calls[i].t >= shapeUpdateInterval

\* the claim's case: a call was dropped less than 200 ms after one that wrote
C15_CallDropped ==
  \E i, j \in 1..Len(calls) :
     /\ i < j /\ calls[i].wrote /\ ~calls[j].wrote
     /\ calls[j].since < shapeUpdateInterval

\* C16: when initialize() has run against a store without player records,
\* the store holds a game state with isActive = true, currentShapeId unset
\* and createdBy the client that ran it.
C16_FirstPlayerSeizesGame ==
  [][\A c \in Clients :
        (Join(c) /\ DOMAIN dbPlayers = {})
        => /\ dbGame'.has /\ dbGame'.isActive
           /\ dbGame'.currentShapeId = nullAs
           /\ dbGame'.createdBy = c]_vars

\* C17: whichever single store request of initialize() is rejected,
\* initialize() returns and the client is subscribed to players, shapes,
\* scores and gameState.
C17_InitializeFailsSoft ==
  \A c \in Clients :
     boot[c] # NotBooted
     => (boot[c].returned /\ boot[c].subscribed = SubscribedPaths)

PeersWhere(conns, Test(_)) ==
  LET keep == SelectSeq(conns, Test) IN [i \in 1..Len(keep) |-> keep[i].peer]

IsOpen(conn) == conn.open

IsOpenAndSound(conn) == conn.open /\ ~conn.throws

\* C19: a broadcast of a position returns normally, calls send() on every
\* open connection and on no other, whichever of them throw, so that the
\* message goes out on every open connection whose send() does not throw.
C19_BroadcastIsolatesFaults ==
  cast.outcome # "idle" /\ cast.data =>
     /\ cast.outcome = "returned"
     /\ cast.tried = PeersWhere(cast.conns, IsOpen)
     /\ cast.delivered = PeersWhere(cast.conns, IsOpenAndSound)

\* the claim's case: a send() threw on the first open connection, the
\* message went out on a later one, and a closed connection was passed over
C19_FaultIsolated ==
  /\ cast.outcome = "returned" /\ cast.data
  /\ \E i, j, k \in 1..Len(cast.conns) :
        /\ i < j
        /\ cast.conns[i].open /\ cast.conns[i].throws
        /\ cast.conns[j].open /\ ~cast.conns[j].throws
        /\ ~cast.conns[k].open
        /\ cast.delivered = <<cast.conns[j].peer>>

\* the place of the first step of a kind in the log of dispose(), 0 if none
StepAt(log, op) ==
  IF \E i \in 1..Len(log) : log[i].op = op
  THEN CHOOSE i \in 1..Len(log) :
         log[i].op = op /\ \A j \in 1..(i - 1) : log[j].op # op
  ELSE 0

C21_RedeliveryChangesNothing ==
  [][\A data \in bul.seen \cup bul.last :
       (data \in bul.seen /\ PeerBullet(data))
         \/ (data \in bul.last /\ PeerPosition(data))
       => /\ bul'.cache = bul.cache
          /\ bul'.remote = bul.remote
          /\ shapes' = shapes]_vars

\* C22: a bullet of the cache that is within half a cell, on all three axes,
\* of a block of an active, unlocked piece does not outlast a frame of the
\* game loop: the frame turns the piece and removes the bullet.  (A bullet
\* message that hits is consumed by its handler, which turns one piece only.)
C22_BulletInRangeIsConsumed ==
  [][FrameBullet =>
       \A id \in DOMAIN bul'.cache :
          firstHit(shapes'[BulletClient],
                   InOrder(DOMAIN shapes'[BulletClient], IdOrder),
                   bul'.cache[id]) = Null]_vars

\* C23: no bullet is in the cache after a frame of the game loop that runs
\* more than 8000 ms after the bullet entered the cache.
C23_BulletsExpire ==
  [][FrameBullet =>
       \A id \in DOMAIN bul'.cache :
          now' - bul'.cache[id].entered <= BulletMaxLifetime]_vars

\* C24: an I piece spawned at height 15 and advanced frame by frame is not
\* locked before 15 s have passed since its spawn, and when it is locked its
\* lowest block stands on the floor (its centre half a cell above it).
C24_LocksAfterFifteenSeconds ==
  lab.on /\ lab.here.type = "I" /\ lab.here.isLocked =>
     /\ now - lab.spawned >= 15 * FallInterval
     /\ Min({q[2] : q \in BlockPositions(lab.here)}) = groundLevel + 1

-----------------------------------------------------------------------------
(* Rotation *)

\* the turn asked of a piece would put one of its blocks outside the grid
OutOfGrid(sh) ==
  LET d == Offsets(sh.type, (sh.rot + 1) % 4)
  IN  \E i \in 1..Len(d) : Abs(sh.x + d[i][1]) > gridHalf

C27_RejectedTurnChangesNothing ==
  [][(SpinAsk /\ ~lab.here.isRotating /\ OutOfGrid(lab.here))
        => lab'.here = lab.here]_vars

\* C28: a frame on which the piece is in mid-turn, before and after, applies
\* no gravity step and does not lock the piece, and a rotation request made
\* in mid-turn changes nothing.
C28_NoGravityInMidTurn ==
  [][/\ (SpinFrame /\ lab.here.isRotating /\ lab'.here.isRotating)
          => (lab'.here.y = lab.here.y /\ ~lab'.here.isLocked)
     /\ (SpinAsk /\ lab.here.isRotating) => lab'.here = lab.here]_vars

\* C25: a locked piece has no block below the floor, on any client, whatever
\* advances, turns, shifts and reconciliations came before.
C25_LockedPieceAboveFloor ==
  \A c \in Clients : \A id \in DOMAIN lab.sh[c] :
     lab.sh[c][id].isLocked
       => \A p \in BlockPositions(lab.sh[c][id]) : p[2] >= groundLevel

\* the copy of the falling piece that client c holds
TurnPiece(c) == lab.sh[c][TurnId]

\* C29: isRotating of a piece becomes true only on a step before which the
\* piece was active, unlocked and not rotating, whichever handler sets it
\* (a bullet hit, a raycast rotate, a reconciliation with the store).
C29_TurnEnteredFromActive ==
  [][\A c \in Clients : \A id \in DOMAIN lab.sh[c] :
        (~lab.sh[c][id].isRotating /\ lab'.sh[c][id].isRotating)
          => (lab.sh[c][id].isActive /\ ~lab.sh[c][id].isLocked)]_vars

\* C30: with one rotation request accepted and no other made, a client's
\* copy of the piece makes at most one quarter turn, and once it has made
\* it the piece is not rotating, whatever notifications of the store arrive.
C30_OneBoundedTurn ==
  lab.asks = 1 /\ lab.accepted = 1
    => \A c \in Clients :
          /\ TurnPiece(c).rot \in {0, 1}
          /\ TurnPiece(c).rot = 1 => ~TurnPiece(c).isRotating

-----------------------------------------------------------------------------
(* Shifts *)

\* C31: a shift is applied only when the new base column is within the
\* grid, and is rejected with the piece unchanged otherwise; the base column
\* of a piece that started within [-5, 5] stays there.
C31_ShiftStaysInGrid ==
  [][/\ Abs(lab'.here.x) <= gridHalf
     /\ (SpinShift \/ SpinSideways)
          => \/ lab'.here = lab.here
             \/ /\ Abs(lab'.here.x - lab.here.x) = 2
                /\ lab'.here = updateBlockPositions([lab.here EXCEPT !.x = lab'.here.x])]_vars

\* a piece was shifted all the way to the left wall, where a further shift
\* to the left leaves it as it is
C31_ShiftedToTheWall ==
  /\ lab.here.x = 0 - gridHalf
  /\ lab.here.isActive /\ ~lab.here.isLocked
  /\ moveShapeInView(SpinWorld, "s1", 0 - 2, now).sh["s1"] = lab.here
  /\ moveSideways(lab.here, 0 - 2) = lab.here

\* C38: every block of an unlocked piece is within the grid, |x| <= 5,
\* after any sequence of spawn, shifts and accepted rotations.
C38_BlocksStayInGrid ==
  ~lab.here.isLocked
    => \A p \in BlockPositions(lab.here) : Abs(p[1]) <= gridHalf

-----------------------------------------------------------------------------
(* Rows and scores *)

\* C32: rowCompletion(y) removes from every locked piece exactly the blocks
\* whose rounded vertical position is y, leaves every other block and every
\* block of an unlocked piece as it was, and writes to the store the block
\* list of each piece it truncated.
C32_RowRemovedOthersKept ==
  [][RowCompletion =>
       LET y == lab'.rows[Len(lab'.rows)]
       IN  /\ \A id \in DOMAIN lab.cache :
                lab'.cache[id].blocks =
                  IF lab.cache[id].sh.isLocked
                  THEN SelectSeq(lab.cache[id].blocks, LAMBDA b : ~AtRow(b, y))
                  ELSE lab.cache[id].blocks
           /\ DOMAIN lab'.published =
                {id \in DOMAIN lab.cache :
                    Len(lab'.cache[id].blocks) # Len(lab.cache[id].blocks)}
           /\ \A id \in DOMAIN lab'.published :
                lab'.published[id] =
                  [i \in 1..Len(lab'.cache[id].blocks) |-> lab'.cache[id].blocks[i].pos]]_vars

\* C33: each row completion adds 10 to the client's score in the store
\* exactly once: when the k calls made so far have all finished, in whatever
\* order their reads and writes were served, the score has grown by 10 * k.
C33_EachCallAddsTen ==
  (\A i \in 1..Len(lab.ops) : lab.ops[i].step = "done")
    => lab.score = lab.start + RowPoints * Len(lab.ops)

\* C34: the sweep of floating shapes never removes a locked piece that rests
\* on the floor or on another locked piece: whatever game-state notification
\* a client handles, such a piece stays in its cache and in the store.
C34_SweepSparesRestingPieces ==
  [][\A c \in Clients : \A id \in ShapeIds :
        ( /\ DeliverGameState(c)
          /\ id \in DOMAIN shapes[c] /\ shapes[c][id].isLocked
          /\ \/ \E p \in BlockPositions(shapes[c][id]) : p[2] <= groundLevel + fallSpeed
             \/ \E other \in DOMAIN shapes[c] \ {id} :
                  /\ shapes[c][other].isLocked
                  /\ checkShapeCollision(shapes[c][id], shapes[c][other]) )
        => (id \in DOMAIN shapes'[c] /\ (id \in DOMAIN dbShapes => id \in DOMAIN dbShapes'))]_vars

-----------------------------------------------------------------------------
(* Player records *)

-----------------------------------------------------------------------------
(* Reconciliation *)

\* C36: when reconciliation is handed, for an unlocked local piece, a store
\* position that is not above the local one, the local base position
\* afterwards is the store position, also when a store coordinate is 0; and
\* reconciliation never raises an unlocked piece.
C36_StorePositionTaken ==
  [][(Note /\ ~lab.sh.isLocked)
       => /\ lab'.sh.y <= lab.sh.y
          /\ lab'.data.y <= lab.sh.y
               => (lab'.sh.x = lab'.data.x /\ lab'.sh.y = lab'.data.y)]_vars

\* C37: gameState.currentShapeId is reset to null by a client only when the
\* piece it names has locked: the lock of another piece never clears a
\* currentShapeId that names a piece still falling.
C37_ClearedOnlyForLockedPiece ==
  [][(/\ Note
      /\ lab.game.currentShapeId \notin {Null, Undef}
      /\ lab'.game.currentShapeId \in {Null, Undef})
       => (lab.game.currentShapeId = "s1" /\ lab'.sh.isLocked)]_vars

-----------------------------------------------------------------------------
(* Going away *)

\* C39: after dispose() a client dials no peer, and no reconnect timer or
\* listing read that was pending when dispose() ran, or was set by it, fires
\* afterwards.
C39_NothingAfterDispose ==
  [][\A c \in lab.disposed :
        /\ ~TimerFires(c)
        /\ ~ReadReturns(c)
        /\ \A p \in Clients :
             net'.link[<<c, p>>] = "dialing" => net.link[<<c, p>>] = "dialing"]_vars

-----------------------------------------------------------------------------
(* Patches *)

\* C40: a patch written by updateShapeState holds only the fields of the
\* caller's partial state plus lastUpdate, and no field is written as null:
\* a position-only patch does not write currentRotation.
C40_PatchHoldsCallersFields ==
  lab.written
    => /\ DOMAIN lab.patch = DOMAIN lab.state \cup {"lastUpdate"}
       /\ \A f \in DOMAIN lab.patch : lab.patch[f] # NullValue

=========================================================================
